---- MODULE Spec2Model ----
(***************************************************************************)
(* Verification model of the talent-matching core:                         *)
(*   - BatchProcessor (src/services/batch_processor.py)                    *)
(*   - StreamingService (src/services/streaming_service.py)                *)
(*   - MatchingEngine scoring stages (src/nodes/matching_nodes.py)         *)
(* and the filters, graph, trackers, managers and scorer around them.      *)
(* The specifications Spec... share the module: each one drives its own    *)
(* group of variables and leaves the other groups at their idle values.    *)
(***************************************************************************)
EXTENDS Integers, Sequences, FiniteSets, TLC

(***************************************************************************)
(* Bounds of the model (not program constants).                            *)
(***************************************************************************)
MaxItems == 3
MaxBatchSize == 2
MaxWorkers == 2
MaxConcurrent == 2
MaxRequests == 2
MaxCalls == 4
MaxPrefiltered == 4
MaxConfigRetries == 4
MaxLlmMatches == 2
MaxLateCalls == 2
MaxScoringItems == 2
MaxCandidates == 2
MaxHardFiltered == 11
MaxTrackerCalls == 4
MaxTotal == 2
MaxManagerCalls == 5
MaxInstances == 3
MaxEmits == 2
MaxCalledItems == 3
MaxScored == 6
MaxEmails == 3
MaxSubscribers == 4
MaxRuns == 2

(***************************************************************************)
(* Generic helpers.                                                        *)
(***************************************************************************)
Min(a, b) == IF a <= b THEN a ELSE b

SeqsUpTo(S, n) == UNION {[1..k -> S] : k \in 0..n}

(***************************************************************************)
(* ======================  BatchProcessor  ==============================  *)
(***************************************************************************)
VARIABLES
    bMode,         \* which entry point runs: "sync", "async" or "matches"
    items,         \* the input list
    raisesOn,      \* the items on which the per-item function raises
    batch_size,    \* parameter batch_size
    max_workers,   \* BatchProcessor.max_workers (size of the thread pool)
    max_concurrent,\* parameter max_concurrent (asyncio.Semaphore)
    engineHasHF,   \* hasattr(matching_engine, 'hard_filter_candidates')
    bpc,           \* position of the caller: "loop", "wait", "done"
    bi,            \* loop variable i of `for i in range(0, total, batch_size)`
    tstate,        \* per item index: "new","queued","running","finished","collected"
    tres,          \* per item index: what the task produced
    doneOrder,     \* indices of the current batch in completion order
    batch_results, \* the list batch_results of the running batch
    results,       \* the list results
    progress,      \* calls made to progress_callback: <<completed, total>>
    bRaised        \* TRUE iff the entry point raised to its caller

batchVars == <<bMode, items, raisesOn, batch_size, max_workers, max_concurrent,
               engineHasHF, bpc, bi, tstate, tres, doneOrder, batch_results,
               results, progress, bRaised>>

\* The null marker (Python None) and the two ways a call can end.
None == [tag |-> "none"]
Returned(v) == [tag |-> "value", v |-> v]
Raised == [tag |-> "exception"]

\* What a task that has not run yet holds.
NotRun == [tag |-> "notrun"]

total_items == Len(items)

\* items[i:i + batch_size] as the set of (1-based) indices it covers.
BatchIdx(i) == (i + 1)..Min(i + batch_size, total_items)

Running == {k \in 1..total_items : tstate[k] = "running"}
Queued == {k \in 1..total_items : tstate[k] = "queued"}

\* The task the pool (or the semaphore's FIFO wait list) serves next.
NextQueued == CHOOSE k \in Queued : \A j \in Queued : k <= j

\* The per-item function handed to process_batch_sync / process_batch_async:
\* any callable; here it returns a value derived from the item or raises.
processor_func(item) ==
    IF item \in raisesOn THEN Raised ELSE Returned(item * 10)

(***************************************************************************)
(* MatchingBatchProcessor.process_matches_batch.process_single_match.      *)
(* matching_engine is a parameter of process_matches_batch: every stage    *)
(* call on it may return the state untouched ("ok"), return it with an     *)
(* error appended to state["errors"] ("err"), or raise ("raise").          *)
(***************************************************************************)
StageOutcomes == {"ok", "err", "raise"}

\* The state dict built at the start of process_single_match.
InitialMatchState(request) ==
    [match_type |-> request.match_type,
     match_query_id |-> request.query_id,
     prefiltered_items |-> <<>>,
     match_results |-> <<>>,
     processing_log |-> <<>>,
     errors |-> <<>>]

\* The match request that item k of the input list stands for.
RequestOf(k) == [query_id |-> k, match_type |-> "project_to_resume"]

\* One call state = matching_engine.<stage>(state); mr is the match_results
\* list a scoring stage leaves in the state.
EngineStage(call, stage, out, mr) ==
    IF call.raised \/ out = "raise"
    THEN [raised |-> TRUE, state |-> call.state]
    ELSE [raised |-> FALSE,
          state |-> [call.state EXCEPT
              !.processing_log = Append(@, stage),
              !.errors = IF out = "err" THEN Append(@, stage) ELSE @,
              !.match_results =
                  IF stage \in {"hybrid_matching", "ai_matching"}
                  THEN mr ELSE @]]

\* The entry returned on the normal path and the one returned by the
\* except branch.
MatchEntry(request, state) ==
    [query_id |-> request.query_id,
     success |-> (Len(state.errors) = 0),
     matches |-> state.match_results,
     errors |-> state.errors,
     log |-> state.processing_log]

MatchErrorEntry(request) ==
    [query_id |-> request.query_id,
     success |-> FALSE,
     matches |-> <<>>,
     errors |-> <<"exception">>,
     log |-> <<>>]

\* A variant without the try/except around the stage calls.
process_single_match_NoCatch(request, hasHF, outs, mr) ==
    LET s0 == [raised |-> FALSE, state |-> InitialMatchState(request)]
        run == IF hasHF
               THEN EngineStage(
                        EngineStage(
                            EngineStage(s0, "hard_filter_candidates", outs[1], mr),
                            "vector_prefilter_candidates", outs[2], mr),
                        "hybrid_matching", outs[3], mr)
               ELSE EngineStage(
                        EngineStage(s0, "prefilter_candidates", outs[1], mr),
                        "ai_matching", outs[2], mr)
    IN  IF run.raised
        THEN Raised
        ELSE Returned(MatchEntry(request, run.state))

process_single_match(request, hasHF, outs, mr) ==
    LET s0 == [raised |-> FALSE, state |-> InitialMatchState(request)]
        run == IF hasHF
               THEN EngineStage(
                        EngineStage(
                            EngineStage(s0, "hard_filter_candidates", outs[1], mr),
                            "vector_prefilter_candidates", outs[2], mr),
                        "hybrid_matching", outs[3], mr)
               ELSE EngineStage(
                        EngineStage(s0, "prefilter_candidates", outs[1], mr),
                        "ai_matching", outs[2], mr)
    IN  IF run.raised
        THEN Returned(MatchErrorEntry(request))
        ELSE Returned(MatchEntry(request, run.state))

\* What running the task of item k can produce.
TaskOutcomes(k) ==
    IF bMode = "matches"
    THEN {process_single_match(RequestOf(items[k]), engineHasHF, outs, mr) :
              outs \in [1..3 -> StageOutcomes], mr \in {<<>>, <<"m1">>}}
    ELSE {processor_func(items[k])}

(***************************************************************************)
(* process_batch_sync.                                                     *)
(***************************************************************************)
\* try: result = future.result() ... except Exception: append(None)
HandleFutureResult(r) ==
    IF r = Raised
    THEN [raised |-> FALSE, value |-> None]
    ELSE [raised |-> FALSE, value |-> r]

\* A variant that skips a failed future instead of appending None.
AppendCollected_SkipFailed(br, r) ==
    IF r = Raised THEN br ELSE Append(br, r)

\* The list process_batch_sync builds from the futures as_completed yields:
\* one append per yielded future.
AppendCollected(br, r) == Append(br, HandleFutureResult(r).value)

\* {executor.submit(processor_func, item): item for item in batch}
SyncSubmit ==
    /\ bMode \in {"sync", "matches"}
    /\ bpc = "loop"
    /\ bi < total_items
    /\ tstate' = [k \in 1..total_items |->
                     IF k \in BatchIdx(bi) THEN "queued" ELSE tstate[k]]
    /\ batch_results' = <<>>
    /\ doneOrder' = <<>>
    /\ bpc' = "wait"
    /\ UNCHANGED <<bMode, items, raisesOn, batch_size, max_workers,
                   max_concurrent, engineHasHF, bi, tres, results, progress,
                   bRaised>>

\* A free thread of the pool takes the oldest queued work item.
WorkerStart ==
    /\ bMode \in {"sync", "matches"}
    /\ bpc = "wait"
    /\ Queued # {}
    /\ Cardinality(Running) < max_workers
    /\ tstate' = [tstate EXCEPT ![NextQueued] = "running"]
    /\ UNCHANGED <<bMode, items, raisesOn, batch_size, max_workers,
                   max_concurrent, engineHasHF, bpc, bi, tres, doneOrder,
                   batch_results, results, progress, bRaised>>

\* A variant in which the worker thread reports the progress itself.
WorkerFinish_Reports(k) ==
    /\ bMode \in {"sync", "matches"}
    /\ bpc = "wait"
    /\ tstate[k] = "running"
    /\ \E r \in TaskOutcomes(k) : tres' = [tres EXCEPT ![k] = r]
    /\ tstate' = [tstate EXCEPT ![k] = "finished"]
    /\ doneOrder' = Append(doneOrder, k)
    /\ progress' = Append(progress, <<Len(doneOrder'), total_items>>)
    /\ UNCHANGED <<bMode, items, raisesOn, batch_size, max_workers,
                   max_concurrent, engineHasHF, bpc, bi, batch_results,
                   results, bRaised>>

\* A worker thread finishes processor_func(item): the future gets its
\* result or its exception.
WorkerFinish(k) ==
    /\ bMode \in {"sync", "matches"}
    /\ bpc = "wait"
    /\ tstate[k] = "running"
    /\ \E r \in TaskOutcomes(k) : tres' = [tres EXCEPT ![k] = r]
    /\ tstate' = [tstate EXCEPT ![k] = "finished"]
    /\ doneOrder' = Append(doneOrder, k)
    /\ UNCHANGED <<bMode, items, raisesOn, batch_size, max_workers,
                   max_concurrent, engineHasHF, bpc, bi, batch_results,
                   results, progress, bRaised>>

\* One iteration of `for future in as_completed(future_to_item)`:
\* as_completed yields some future that has finished and was not yielded yet.
SyncCollect(k) ==
    /\ bMode \in {"sync", "matches"}
    /\ bpc = "wait"
    /\ tstate[k] = "finished"
    /\ tstate' = [tstate EXCEPT ![k] = "collected"]
    /\ batch_results' = AppendCollected(batch_results, tres[k])
    /\ bRaised' = (bRaised \/ HandleFutureResult(tres[k]).raised)
    /\ UNCHANGED <<bMode, items, raisesOn, batch_size, max_workers,
                   max_concurrent, engineHasHF, bpc, bi, tres, doneOrder,
                   results, progress>>

\* A variant that goes on to the next batch as soon as one future of the
\* batch was collected.
SyncBatchDone_NoWait ==
    /\ bMode \in {"sync", "matches"}
    /\ bpc = "wait"
    /\ \E k \in BatchIdx(bi) : tstate[k] = "collected"
    /\ results' = results \o batch_results
    /\ progress' = Append(progress, <<Len(results'), total_items>>)
    /\ bi' = bi + batch_size
    /\ bpc' = "loop"
    /\ UNCHANGED <<bMode, items, raisesOn, batch_size, max_workers,
                   max_concurrent, engineHasHF, tstate, tres, doneOrder,
                   batch_results, bRaised>>

\* as_completed is exhausted: results.extend(batch_results), the progress
\* callback, and the next turn of the loop.
SyncBatchDone ==
    /\ bMode \in {"sync", "matches"}
    /\ bpc = "wait"
    /\ \A k \in BatchIdx(bi) : tstate[k] = "collected"
    /\ results' = results \o batch_results
    /\ progress' = Append(progress, <<Len(results'), total_items>>)
    /\ bi' = bi + batch_size
    /\ bpc' = "loop"
    /\ UNCHANGED <<bMode, items, raisesOn, batch_size, max_workers,
                   max_concurrent, engineHasHF, tstate, tres, doneOrder,
                   batch_results, bRaised>>

\* The for loop is over: return results.
BatchReturn ==
    /\ bpc = "loop"
    /\ bi >= total_items
    /\ bpc' = "done"
    /\ UNCHANGED <<bMode, items, raisesOn, batch_size, max_workers,
                   max_concurrent, engineHasHF, bi, tstate, tres, doneOrder,
                   batch_results, results, progress, bRaised>>

(***************************************************************************)
(* process_batch_async.                                                    *)
(***************************************************************************)
\* process_with_semaphore: the except branch turns an exception into None.
process_with_semaphore(item) ==
    IF processor_func(item) = Raised THEN None ELSE processor_func(item)

\* A variant that lists the results in the order the tasks completed.
GatherResults_ByCompletion(i) ==
    [j \in 1..Cardinality(BatchIdx(i)) |-> tres[doneOrder[j]]]

\* asyncio.gather(*tasks, return_exceptions=True): the results in the order
\* of the awaitables, whatever the order of completion.
GatherResults(i) ==
    [j \in 1..Cardinality(BatchIdx(i)) |-> tres[i + j]]

\* for result in batch_results: isinstance(result, Exception) -> None
ProcessedResults(br) ==
    [j \in 1..Len(br) |-> IF br[j] = Raised THEN None ELSE br[j]]

\* tasks = [process_with_semaphore(item) for item in batch]; gather schedules
\* them.
AsyncCreateTasks ==
    /\ bMode = "async"
    /\ bpc = "loop"
    /\ bi < total_items
    /\ tstate' = [k \in 1..total_items |->
                     IF k \in BatchIdx(bi) THEN "queued" ELSE tstate[k]]
    /\ doneOrder' = <<>>
    /\ bpc' = "wait"
    /\ UNCHANGED <<bMode, items, raisesOn, batch_size, max_workers,
                   max_concurrent, engineHasHF, bi, tres, batch_results,
                   results, progress, bRaised>>

\* A variant that lets a task in without a free slot of the semaphore.
AsyncAcquire_NoSemaphore ==
    /\ bMode = "async"
    /\ bpc = "wait"
    /\ Queued # {}
    /\ tstate' = [tstate EXCEPT ![NextQueued] = "running"]
    /\ UNCHANGED <<bMode, items, raisesOn, batch_size, max_workers,
                   max_concurrent, engineHasHF, bpc, bi, tres, doneOrder,
                   batch_results, results, progress, bRaised>>

\* async with semaphore: the oldest waiting task enters when a slot is free.
AsyncAcquire ==
    /\ bMode = "async"
    /\ bpc = "wait"
    /\ Queued # {}
    /\ Cardinality(Running) < max_concurrent
    /\ tstate' = [tstate EXCEPT ![NextQueued] = "running"]
    /\ UNCHANGED <<bMode, items, raisesOn, batch_size, max_workers,
                   max_concurrent, engineHasHF, bpc, bi, tres, doneOrder,
                   batch_results, results, progress, bRaised>>

\* await async_processor(item) completes (or raises) and the semaphore is
\* released.
AsyncFinish(k) ==
    /\ bMode = "async"
    /\ bpc = "wait"
    /\ tstate[k] = "running"
    /\ tres' = [tres EXCEPT ![k] = process_with_semaphore(items[k])]
    /\ tstate' = [tstate EXCEPT ![k] = "finished"]
    /\ doneOrder' = Append(doneOrder, k)
    /\ UNCHANGED <<bMode, items, raisesOn, batch_size, max_workers,
                   max_concurrent, engineHasHF, bpc, bi, batch_results,
                   results, progress, bRaised>>

\* A variant that reports the size of the batch instead of len(results).
AsyncGatherDone_BatchCount ==
    /\ bMode = "async"
    /\ bpc = "wait"
    /\ \A k \in BatchIdx(bi) : tstate[k] = "finished"
    /\ batch_results' = GatherResults(bi)
    /\ results' = results \o ProcessedResults(batch_results')
    /\ progress' = Append(progress, <<Len(batch_results'), total_items>>)
    /\ tstate' = [k \in 1..total_items |->
                     IF k \in BatchIdx(bi) THEN "collected" ELSE tstate[k]]
    /\ bi' = bi + batch_size
    /\ bpc' = "loop"
    /\ UNCHANGED <<bMode, items, raisesOn, batch_size, max_workers,
                   max_concurrent, engineHasHF, tres, doneOrder, bRaised>>

\* gather returns: processed_results, results.extend, the progress callback.
AsyncGatherDone ==
    /\ bMode = "async"
    /\ bpc = "wait"
    /\ \A k \in BatchIdx(bi) : tstate[k] = "finished"
    /\ batch_results' = GatherResults(bi)
    /\ results' = results \o ProcessedResults(batch_results')
    /\ progress' = Append(progress, <<Len(results'), total_items>>)
    /\ tstate' = [k \in 1..total_items |->
                     IF k \in BatchIdx(bi) THEN "collected" ELSE tstate[k]]
    /\ bi' = bi + batch_size
    /\ bpc' = "loop"
    /\ UNCHANGED <<bMode, items, raisesOn, batch_size, max_workers,
                   max_concurrent, engineHasHF, tres, doneOrder, bRaised>>

(***************************************************************************)
(* ======================  StreamingService  ============================  *)
(* One stream, driven by calls made one after another; subscriber          *)
(* callbacks do not call back into the stream.                             *)
(***************************************************************************)
VARIABLES
    is_active,        \* StreamingService.is_active
    subscribers,      \* StreamingService.subscribers (a list of callbacks)
    last_heartbeat,   \* StreamingService.last_heartbeat
    registered,       \* TRUE iff StreamManager._streams holds the stream
    faulty,           \* the callbacks that raise when they are called
    clock,            \* number of calls made so far (the time of the model)
    received,         \* per callback: the events it was called with, in order
    completeReturned, \* TRUE once a call of complete() has returned
    lastEmit          \* what the latest emit_event call did

streamVars == <<is_active, subscribers, last_heartbeat, registered, faulty,
                clock, received, completeReturned, lastEmit>>

Callbacks == {"cb1", "cb2"}

\* StreamEventType
PROGRESS == "progress"
STATUS == "status"
ERROR == "error"
RESULT == "result"
HEARTBEAT == "heartbeat"
COMPLETE == "complete"

\* StreamEvent(event_type, timestamp, session_id, data, metadata): the model
\* keeps the type and the timestamp.
StreamEvent(type, now) == [event_type |-> type, timestamp |-> now]

NoEmit == [event_type |-> "none", timestamp |-> 0, active |-> FALSE,
           subs |-> <<>>, called |-> <<>>, propagated |-> FALSE]

\* The index of the first callback of subs that is in bad (0: none).
RECURSIVE FirstBad(_, _, _)
FirstBad(subs, bad, k) ==
    IF k > Len(subs) THEN 0
    ELSE IF subs[k] \in bad THEN k ELSE FirstBad(subs, bad, k + 1)

\* A variant without the try/except around callback(event).
NotifySubscribers_NoCatch(subs, bad) ==
    IF FirstBad(subs, bad, 1) = 0
    THEN [called |-> subs, propagated |-> FALSE]
    ELSE [called |-> SubSeq(subs, 1, FirstBad(subs, bad, 1)),
          propagated |-> TRUE]

\* for callback in self.subscribers: try: callback(event) except Exception:
\* log.  Gives the callbacks called, in order, and whether an exception
\* leaves the loop.
NotifySubscribers(subs, bad) ==
    [called |-> subs, propagated |-> FALSE]

\* The events a callback has received after the calls listed in `called`.
RECURSIVE DeliverAll(_, _, _)
DeliverAll(rcv, called, ev) ==
    IF called = <<>> THEN rcv
    ELSE DeliverAll([rcv EXCEPT ![Head(called)] = Append(@, ev)],
                    Tail(called), ev)

\* StreamingService.emit_event(event_type, data, metadata)
emit_event(type) ==
    IF ~is_active
    THEN /\ received' = received
         /\ lastEmit' = [NoEmit EXCEPT !.event_type = type,
                                       !.timestamp = clock + 1]
    ELSE LET n == NotifySubscribers(subscribers, faulty)
         IN  /\ received' = DeliverAll(received, n.called,
                                       StreamEvent(type, clock + 1))
             /\ lastEmit' = [event_type |-> type, timestamp |-> clock + 1,
                             active |-> TRUE, subs |-> subscribers,
                             called |-> n.called,
                             propagated |-> n.propagated]

\* StreamingService.subscribe(callback)
subscribe(cb) ==
    /\ clock < MaxCalls
    /\ clock' = clock + 1
    /\ subscribers' = Append(subscribers, cb)
    /\ UNCHANGED <<is_active, last_heartbeat, registered, faulty, received,
                   completeReturned, lastEmit>>

\* list.remove(x): the list without the first occurrence of x.
RECURSIVE ListRemove(_, _)
ListRemove(l, x) ==
    IF l = <<>> THEN <<>>
    ELSE IF Head(l) = x THEN Tail(l)
    ELSE <<Head(l)>> \o ListRemove(Tail(l), x)

\* StreamingService.unsubscribe(callback)
unsubscribe(cb) ==
    /\ clock < MaxCalls
    /\ clock' = clock + 1
    /\ subscribers' = ListRemove(subscribers, cb)
    /\ UNCHANGED <<is_active, last_heartbeat, registered, faulty, received,
                   completeReturned, lastEmit>>

\* emit_progress, emit_status, emit_error, emit_result, and emit_event called
\* with one of their event types: each builds its payload and calls
\* emit_event.
emit_progress ==
    /\ clock < MaxCalls
    /\ clock' = clock + 1
    /\ emit_event(PROGRESS)
    /\ UNCHANGED <<is_active, subscribers, last_heartbeat, registered, faulty,
                   completeReturned>>

emit_status ==
    /\ clock < MaxCalls
    /\ clock' = clock + 1
    /\ emit_event(STATUS)
    /\ UNCHANGED <<is_active, subscribers, last_heartbeat, registered, faulty,
                   completeReturned>>

emit_error ==
    /\ clock < MaxCalls
    /\ clock' = clock + 1
    /\ emit_event(ERROR)
    /\ UNCHANGED <<is_active, subscribers, last_heartbeat, registered, faulty,
                   completeReturned>>

emit_result ==
    /\ clock < MaxCalls
    /\ clock' = clock + 1
    /\ emit_event(RESULT)
    /\ UNCHANGED <<is_active, subscribers, last_heartbeat, registered, faulty,
                   completeReturned>>

\* StreamingService.emit_heartbeat(): last_heartbeat is set whether or not
\* the event went out.
emit_heartbeat ==
    /\ clock < MaxCalls
    /\ clock' = clock + 1
    /\ emit_event(HEARTBEAT)
    /\ last_heartbeat' = clock + 1
    /\ UNCHANGED <<is_active, subscribers, registered, faulty,
                   completeReturned>>

\* A variant of complete() that leaves is_active set.
complete_StaysActive ==
    /\ clock < MaxCalls
    /\ clock' = clock + 1
    /\ emit_event(COMPLETE)
    /\ completeReturned' = TRUE
    /\ UNCHANGED <<is_active, subscribers, last_heartbeat, registered, faulty>>

\* StreamingService.complete(final_result)
complete ==
    /\ clock < MaxCalls
    /\ clock' = clock + 1
    /\ emit_event(COMPLETE)
    /\ is_active' = FALSE
    /\ completeReturned' = TRUE
    /\ UNCHANGED <<subscribers, last_heartbeat, registered, faulty>>

\* StreamManager.remove_stream(session_id)
remove_stream ==
    /\ clock < MaxCalls
    /\ registered
    /\ clock' = clock + 1
    /\ is_active' = FALSE
    /\ registered' = FALSE
    /\ UNCHANGED <<subscribers, last_heartbeat, faulty, received,
                   completeReturned, lastEmit>>

(***************************************************************************)
(* ======================  MatchingEngine  ==============================  *)
(* The scoring stages of src/nodes/matching_nodes.py on one GraphState.    *)
(* Similarities are kept in thousandths (850 is 0.85) and the arithmetic   *)
(* is exact.                                                               *)
(***************************************************************************)
VARIABLES
    mstate,            \* the GraphState dict the stages work on
    use_vector_search, \* MatchingEngine.use_vector_search
    matchingWeights,   \* Config.MATCHING_WEIGHTS: {} when the attribute is
                       \* missing, else a one-element set holding the dict
    configMaxRetries,  \* Config.MAX_RETRIES (environment MAX_RETRIES)
    mpc,               \* "start", "ai_loop" (inside the retry loop), "done"
    stageRun,          \* the stage that was started
    attempt,           \* loop variable of `for attempt in range(max_retries)`
    llmCalls,          \* number of chain.invoke calls made by ai_matching
    aiFellBack,        \* TRUE iff ai_matching built the fallback ranking
    hybridRaised       \* TRUE iff hybrid_matching ran its except branch

matchVars == <<mstate, use_vector_search, matchingWeights, configMaxRetries,
               mpc, stageRun, attempt, llmCalls, aiFellBack, hybridRaised>>

\* dict.get(key, default) on an optional field kept as {} or {value}.
Get(field, default) ==
    IF field = {} THEN default ELSE CHOOSE x \in field : TRUE

\* The kinds of records a prefiltered list holds: a spreadsheet row, a vector
\* store point whose payload has no id, a vector store point with an id.
SheetItem ==
    [id |-> {"C001"}, point_id |-> {}, name |-> {"zhang"}, title |-> {},
     similarity_score |-> {}, final_score |-> {}, business |-> 75]
PointItem ==
    [id |-> {}, point_id |-> {"uuid-2"}, name |-> {}, title |-> {"P-title"},
     similarity_score |-> {850}, final_score |-> {600}, business |-> 40]
PointItemWithId ==
    [id |-> {"C003"}, point_id |-> {"uuid-3"}, name |-> {"li"}, title |-> {},
     similarity_score |-> {756}, final_score |-> {756}, business |-> 100]

ItemKinds == {SheetItem, PointItem, PointItemWithId}

\* Points whose similarity is outside 0..1: similarity_score is whatever the
\* vector store returns (a dot product or a cosine below zero).
OverItem ==
    [id |-> {"C004"}, point_id |-> {"uuid-4"}, name |-> {"zhao"}, title |-> {},
     similarity_score |-> {1200}, final_score |-> {}, business |-> 100]
NegativeItem ==
    [id |-> {"C005"}, point_id |-> {"uuid-5"}, name |-> {"sun"}, title |-> {},
     similarity_score |-> {0 - 100}, final_score |-> {}, business |-> 0]

ScoringItemKinds == ItemKinds \cup {OverItem, NegativeItem}

\* A variant that does not cut the list.
Take_All(l, n) == l

\* min(len, n) first elements: l[:n]
Take(l, n) == SubSeq(l, 1, Min(Len(l), n))

\* int(x) for x = num/den with den > 0: truncation toward zero.
IntTrunc(num, den) ==
    IF num >= 0 THEN num \div den ELSE 0 - ((0 - num) \div den)

\* A variant that does not check the range of the score.
MatchResultValid_NoRange(data) ==
    /\ data.id # {} /\ data.name # {} /\ data.reason # {}
    /\ data.score # {}

\* pydantic validation of MatchResult(id, name, score, reason):
\* score: int = Field(ge=0, le=100); every field is required.
MatchResultValid(data) ==
    /\ data.id # {} /\ data.name # {} /\ data.reason # {}
    /\ data.score # {}
    /\ \A x \in data.score : 0 <= x /\ x <= 100

MatchResult(id, name, score, reason) ==
    [id |-> id, name |-> name, score |-> score, reason |-> reason]

\* matches.sort(key=lambda x: x.score, reverse=True): stable, descending.
RECURSIVE InsertDesc(_, _)
InsertDesc(sorted, m) ==
    IF sorted = <<>> THEN <<m>>
    ELSE IF Head(sorted).score >= m.score
         THEN <<Head(sorted)>> \o InsertDesc(Tail(sorted), m)
         ELSE <<m>> \o sorted

RECURSIVE SortInto(_, _)
SortInto(acc, l) ==
    IF l = <<>> THEN acc ELSE SortInto(InsertDesc(acc, Head(l)), Tail(l))

SortByScoreDesc(l) == SortInto(<<>>, l)

DefaultSimilarity == 700

\* The body of the for loop of vector_similarity_matching for one item.
VectorMatchOf(item) ==
    LET similarity_score == Get(item.similarity_score, DefaultSimilarity)
        match_score == IntTrunc(similarity_score * 100, 1000)
    IN  MatchResult(Get(item.point_id, Get(item.id, "unknown")),
                    Get(item.name, Get(item.title, "unknown-name")),
                    match_score, "vector")

\* MatchingEngine.vector_similarity_matching(state)
vector_similarity_matching(state, useVector) ==
    IF ~useVector
    THEN [state EXCEPT !.processing_log = Append(@, "vector_skipped")]
    ELSE IF state.prefiltered_items = <<>>
    THEN [state EXCEPT !.match_results = <<>>,
                       !.processing_log = Append(@, "vector_no_items")]
    ELSE LET its == Take(state.prefiltered_items, 5)
             matches == [j \in 1..Len(its) |-> VectorMatchOf(its[j])]
         IN  IF \E j \in 1..Len(its) :
                    matches[j].score < 0 \/ matches[j].score > 100
             THEN [state EXCEPT !.errors = Append(@, "vector_failed"),
                                !.match_results = <<>>]
             ELSE [state EXCEPT
                      !.match_results = SortByScoreDesc(matches),
                      !.processing_log = Append(@, "vector_done")]

\* What _get_ai_score can hand back for an item: the relevance service's
\* score, or the neutral 60 when there is no project or the call fails.
NeutralAiScore == 60
AiScoreChoices == {NeutralAiScore, 80, 150}

\* final_score of hybrid_matching for one item, in thousandths of a point;
\* w holds the three weights in percent.
HybridFinalMilli(item, ai_score, w) ==
    LET vector_milli ==
            Get(item.final_score,
                Get(item.similarity_score, DefaultSimilarity)) * 100
    IN  (vector_milli * w.HYBRID_VECTOR
         + ai_score * 1000 * w.HYBRID_AI
         + item.business * 1000 * w.HYBRID_BUSINESS) \div 100

HybridMatchOf(item, ai_score, w) ==
    MatchResult(Get(item.point_id, Get(item.id, "unknown")),
                Get(item.name, Get(item.title, "unknown-name")),
                IntTrunc(HybridFinalMilli(item, ai_score, w), 1000),
                "hybrid")

\* TRUE iff the try block of hybrid_matching raises: the weights are missing
\* from Config, the step injected at item failAt raises, or a MatchResult
\* fails validation.
HybridTryRaises(its, aiOf, failAt, weights) ==
    \/ weights = {}
    \/ failAt \in 1..Len(its)
    \/ \E j \in 1..Len(its) :
          LET m == HybridMatchOf(its[j], aiOf[its[j]],
                                 CHOOSE w \in weights : TRUE)
          IN  m.score < 0 \/ m.score > 100

\* except Exception: errors.append(...); state = vector_similarity_matching
HybridExcept(state, useVector) ==
    vector_similarity_matching(
        [state EXCEPT !.errors = Append(@, "hybrid_failed")], useVector)

\* MatchingEngine.hybrid_matching(state)
hybrid_matching(state, useVector, weights, aiOf, failAt) ==
    LET logged == [state EXCEPT
                      !.processing_log = Append(@, "hybrid_start")]
        its == Take(state.prefiltered_items, 5)
    IN  IF state.prefiltered_items = <<>>
        THEN [logged EXCEPT !.match_results = <<>>,
                            !.processing_log = Append(@, "hybrid_no_items")]
        ELSE IF HybridTryRaises(its, aiOf, failAt, weights)
        THEN HybridExcept(logged, useVector)
        ELSE LET w == CHOOSE x \in weights : TRUE
                 hybrid_matches ==
                     [j \in 1..Len(its) |->
                         HybridMatchOf(its[j], aiOf[its[j]], w)]
             IN  [logged EXCEPT
                     !.match_results = SortByScoreDesc(hybrid_matches),
                     !.processing_log = Append(@, "hybrid_done")]

(***************************************************************************)
(* ai_matching: the retry loop around chain.invoke.                        *)
(***************************************************************************)
\* max_retries = 3 (a local variable of ai_matching)
max_retries == 3

\* What the relevance service can return as one element of "matches".
ValidEntry ==
    [id |-> {"C001"}, name |-> {"zhang"}, score |-> {85}, reason |-> {"r"}]
BadScoreEntry ==
    [id |-> {"C002"}, name |-> {"wang"}, score |-> {150}, reason |-> {"r"}]
MissingFieldEntry ==
    [id |-> {"C003"}, name |-> {"li"}, score |-> {70}, reason |-> {}]
EntryKinds == {ValidEntry, BadScoreEntry, MissingFieldEntry}

\* What one chain.invoke call can do: raise, return something that is not a
\* dict, return a dict without "matches", return a dict whose "matches" is
\* not iterable (null, a number), or return a dict with a list of entries.
LlmResponses ==
    {[kind |-> k, matches |-> <<>>] :
        k \in {"raise", "not_dict", "no_matches", "matches_not_iterable"}}
    \cup {[kind |-> "ok", matches |-> m] : m \in SeqsUpTo(EntryKinds, MaxLlmMatches)}

\* TRUE iff the try block of one attempt raises on this response.
AttemptFails(resp) == resp.kind # "ok"

\* The inner loop over result["matches"]: the valid entries, in order.
RECURSIVE ParseMatches(_)
ParseMatches(ms) ==
    IF ms = <<>> THEN <<>>
    ELSE IF MatchResultValid(Head(ms))
         THEN <<MatchResult(Get(Head(ms).id, ""), Get(Head(ms).name, ""),
                            Get(Head(ms).score, 0), Get(Head(ms).reason, ""))>>
              \o ParseMatches(Tail(ms))
         ELSE ParseMatches(Tail(ms))

\* A variant that records one error for the whole response.
ParseErrors_OncePerResponse(ms) ==
    IF \A j \in 1..Len(ms) : MatchResultValid(ms[j]) THEN <<>>
    ELSE <<"match_format_error">>

\* ... and one error per entry that MatchResult(**match_data) rejects.
RECURSIVE ParseErrors(_)
ParseErrors(ms) ==
    IF ms = <<>> THEN <<>>
    ELSE IF MatchResultValid(Head(ms)) THEN ParseErrors(Tail(ms))
         ELSE <<"match_format_error">> \o ParseErrors(Tail(ms))

FallbackIds == <<"fallback_0", "fallback_1", "fallback_2">>

\* A variant whose scores start one step too low.
FallbackMatches_OffByOne(prefiltered) ==
    LET its == Take(prefiltered, 3)
    IN  [j \in 1..Len(its) |->
            MatchResult(Get(its[j].id, FallbackIds[j]),
                        Get(its[j].name, Get(its[j].title, "unknown-name")),
                        60 - j * 5,
                        "fallback")]

\* fallback_matches: one MatchResult per item of prefiltered_items[:3],
\* score 60 - i*5 for i = 0, 1, 2.
FallbackMatches(prefiltered) ==
    LET its == Take(prefiltered, 3)
    IN  [j \in 1..Len(its) |->
            MatchResult(Get(its[j].id, FallbackIds[j]),
                        Get(its[j].name, Get(its[j].title, "unknown-name")),
                        60 - (j - 1) * 5,
                        "fallback")]

\* The state after the except branch of the last attempt.
AiFinalFailure(state) ==
    [state EXCEPT
        !.errors = Append(@, "ai_matching_failed"),
        !.match_results =
            IF state.prefiltered_items # <<>>
            THEN FallbackMatches(state.prefiltered_items) ELSE <<>>,
        !.processing_log =
            IF state.prefiltered_items # <<>>
            THEN Append(@, "fallback_used") ELSE @]

\* ai_matching up to the retry loop: the empty-list early return.
StartAiMatching ==
    /\ mpc = "start"
    /\ stageRun' = "ai_matching"
    /\ IF mstate.prefiltered_items = <<>>
       THEN /\ mstate' = [mstate EXCEPT
                             !.match_results = <<>>,
                             !.processing_log = Append(@, "ai_no_items")]
            /\ mpc' = "done"
       ELSE /\ mstate' = mstate
            /\ mpc' = "ai_loop"
    /\ attempt' = 0
    /\ UNCHANGED <<use_vector_search, matchingWeights, configMaxRetries,
                   llmCalls, aiFellBack, hybridRaised>>

\* One turn of `for attempt in range(max_retries)` in which chain.invoke
\* does resp: the validation of its result, and the except branch.
AiAttemptWith(resp) ==
    /\ mpc = "ai_loop"
    /\ attempt < max_retries
    /\ llmCalls' = llmCalls + 1
    /\ IF ~AttemptFails(resp)
       THEN /\ mstate' = [mstate EXCEPT
                   !.errors = @ \o ParseErrors(resp.matches),
                   !.match_results = ParseMatches(resp.matches),
                   !.processing_log = Append(@, "ai_done")]
            /\ mpc' = "done"
            /\ UNCHANGED <<attempt, aiFellBack>>
       ELSE IF attempt < max_retries - 1
       THEN /\ mstate' = [mstate EXCEPT
                   !.processing_log = Append(@, "ai_retry")]
            /\ attempt' = attempt + 1
            /\ UNCHANGED <<mpc, aiFellBack>>
       ELSE /\ mstate' = AiFinalFailure(mstate)
            /\ aiFellBack' = TRUE
            /\ mpc' = "done"
            /\ UNCHANGED attempt
    /\ UNCHANGED <<use_vector_search, matchingWeights, configMaxRetries,
                   stageRun, hybridRaised>>

\* One turn of the retry loop, whatever chain.invoke does.
AiAttempt == \E resp \in LlmResponses : AiAttemptWith(resp)

\* The set of the elements of a list.
ItemsOf(l) == {l[j] : j \in 1..Len(l)}

\* A call of hybrid_matching(state); aiOf is what _get_ai_score returns for
\* each item, failAt the item at which the business scorer raises (0: none).
RunHybridMatching ==
    /\ mpc = "start"
    /\ stageRun' = "hybrid_matching"
    /\ \E aiOf \in [ItemsOf(Take(mstate.prefiltered_items, 5))
                        -> AiScoreChoices],
          failAt \in 0..Len(Take(mstate.prefiltered_items, 5)) :
          /\ mstate' = hybrid_matching(mstate, use_vector_search,
                                       matchingWeights, aiOf, failAt)
          /\ hybridRaised' =
                (/\ mstate.prefiltered_items # <<>>
                 /\ HybridTryRaises(Take(mstate.prefiltered_items, 5), aiOf,
                                    failAt, matchingWeights))
    /\ mpc' = "done"
    /\ UNCHANGED <<use_vector_search, matchingWeights, configMaxRetries,
                   attempt, llmCalls, aiFellBack>>

\* A call of vector_similarity_matching(state) as a stage of its own.
RunVectorMatching ==
    /\ mpc = "start"
    /\ stageRun' = "vector_similarity_matching"
    /\ mstate' = vector_similarity_matching(mstate, use_vector_search)
    /\ mpc' = "done"
    /\ UNCHANGED <<use_vector_search, matchingWeights, configMaxRetries,
                   attempt, llmCalls, aiFellBack, hybridRaised>>

(***************************************************************************)
(* ==============  IntegratedProcessingService  =========================  *)
(* process_emails_with_streaming on one session, and cleanup_session.      *)
(* The run uses the stream of the StreamingService section; a second       *)
(* thread may subscribe and unsubscribe while it runs.                     *)
(***************************************************************************)
VARIABLES
    sphase,        \* "idle", "try", "except", "returned", "raised"
    sidx,          \* index of the next statement of the try or except body
    enable_streaming,          \* parameter enable_streaming
    enable_progress_tracking,  \* parameter enable_progress_tracking
    found,         \* what the e-mails yielded: "none", "one_kind", "both"
    completeCarried,   \* payload of the COMPLETE event that went out
    trackerRegistered, \* TRUE iff ProgressManager.trackers holds the session
    cleanupPc,     \* cleanup_session: "idle", "start", "mid", "done"
    observed       \* what another thread saw in the two registries

sessVars == <<sphase, sidx, enable_streaming, enable_progress_tracking, found,
              completeCarried, trackerRegistered, cleanupPc, observed>>

\* One statement: the call it makes and the condition under which the code
\* makes it.
Stmt(op, when) == [op |-> op, when |-> when]

\* The try block of process_emails_with_streaming (lines 73-270), statement
\* by statement.  "progress" is a tracker call that notifies
\* progress_to_stream, which calls emit_progress; "work" is a computation
\* that sends no event.
TryBody ==
    << Stmt("progress", "tracker"),  \* 76  start_stage(INITIALIZATION)
       Stmt("progress", "tracker"),  \* 77  complete_stage(INITIALIZATION)
       Stmt("status", "stream"),     \* 80  emit_status
       Stmt("progress", "tracker"),  \* 87  start_stage(EMAIL_CLASSIFICATION)
       Stmt("work", "always"),       \* 97  process_emails_batch
       Stmt("progress", "tracker"),  \* 104 complete_stage
       Stmt("work", "always"),       \* 110 candidates / projects
       Stmt("result", "stream"),     \* 118 emit_result
       Stmt("progress", "items"),    \* 129 start_stage(VECTOR_GENERATION)
       Stmt("work", "always"),       \* 132-150 embeddings
       Stmt("progress", "items"),    \* 153 complete_stage(VECTOR_GENERATION)
       Stmt("progress", "items"),    \* 158 start_stage(DATABASE_STORAGE)
       Stmt("progress", "items"),    \* 169 update_progress(DATABASE_STORAGE)
       Stmt("progress", "items"),    \* 187 complete_stage(DATABASE_STORAGE)
       Stmt("progress", "both"),     \* 193 start_stage(MATCHING_ANALYSIS)
       Stmt("work", "always"),       \* 215 process_matches_batch
       Stmt("progress", "both"),     \* 222 complete_stage(MATCHING_ANALYSIS)
       Stmt("progress", "tracker"),  \* 226 start_stage(RESULT_GENERATION)
       Stmt("work", "always"),       \* 229 final_result
       Stmt("progress", "tracker"),  \* 258 complete_stage(RESULT_GENERATION)
       Stmt("progress", "tracker"),  \* 259 complete_session
       Stmt("work", "tracker"),      \* 262 get_overall_progress
       Stmt("complete_result", "stream") >>  \* 267 complete(final_result)

\* A variant of the except branch that does not complete the stream.
ExceptBody_NoComplete ==
    << Stmt("error", "stream"),
       Stmt("set_error", "tracker") >>

\* The except branch (lines 272-281); the raise of line 283 follows it.
ExceptBody ==
    << Stmt("error", "stream"),           \* 277 emit_error
       Stmt("complete_error", "stream"),  \* 278 complete({"error": ...})
       Stmt("set_error", "tracker") >>    \* 281 set_error(COMPLETION, ...)

\* TRUE iff the run makes the call of a statement with this condition.
Applies(when) ==
    CASE when = "always" -> TRUE
      [] when = "stream" -> enable_streaming
      [] when = "tracker" -> enable_progress_tracking
      [] when = "items" -> enable_progress_tracking /\ found # "none"
      [] when = "both" -> enable_progress_tracking /\ found = "both"

\* The event type a statement hands to emit_event.
EventTypeOf(op) ==
    CASE op = "progress" -> PROGRESS
      [] op = "status" -> STATUS
      [] op = "result" -> RESULT
      [] op = "error" -> ERROR
      [] op \in {"complete_result", "complete_error"} -> COMPLETE

\* The effect of one statement on the stream.  A tracker notification
\* reaches the stream only through progress_to_stream, which is registered
\* only when the stream exists; set_error(COMPLETION) finds no such stage
\* and notifies nobody; StreamingService.complete clears is_active after
\* its emit.
StmtEffect(s) ==
    IF s.op \in {"work", "set_error"} \/ ~enable_streaming
    THEN UNCHANGED <<streamVars, completeCarried>>
    ELSE IF s.op \in {"complete_result", "complete_error"}
    THEN /\ emit_event(COMPLETE)
         /\ is_active' = FALSE
         /\ completeReturned' = TRUE
         /\ completeCarried' =
               IF ~is_active THEN completeCarried
               ELSE IF s.op = "complete_error" THEN "error" ELSE "result"
         /\ UNCHANGED <<subscribers, last_heartbeat, registered, faulty,
                        clock>>
    ELSE /\ emit_event(EventTypeOf(s.op))
         /\ UNCHANGED <<is_active, subscribers, last_heartbeat, registered,
                        faulty, clock, completeReturned, completeCarried>>

\* The next statement of the try block is skipped or runs to its end.
SessionTryStep ==
    /\ sphase = "try"
    /\ sidx <= Len(TryBody)
    /\ IF Applies(TryBody[sidx].when)
       THEN StmtEffect(TryBody[sidx])
       ELSE UNCHANGED <<streamVars, completeCarried>>
    /\ sidx' = sidx + 1
    /\ UNCHANGED <<sphase, enable_streaming, enable_progress_tracking, found,
                   trackerRegistered, cleanupPc, observed>>

\* The next statement of the try block raises before it has sent anything.
\* StreamingService.complete catches what its subscribers raise and raises
\* nothing itself.
SessionTryRaise ==
    /\ sphase = "try"
    /\ sidx <= Len(TryBody)
    /\ TryBody[sidx].op # "complete_result"
    /\ Applies(TryBody[sidx].when)
    /\ sphase' = "except"
    /\ sidx' = 1
    /\ UNCHANGED <<streamVars, enable_streaming, enable_progress_tracking,
                   found, completeCarried, trackerRegistered, cleanupPc,
                   observed>>

\* return final_result (line 270)
SessionReturn ==
    /\ sphase = "try"
    /\ sidx = Len(TryBody) + 1
    /\ sphase' = "returned"
    /\ UNCHANGED <<streamVars, sidx, enable_streaming,
                   enable_progress_tracking, found, completeCarried,
                   trackerRegistered, cleanupPc, observed>>

\* One statement of the except branch.
SessionExceptStep ==
    /\ sphase = "except"
    /\ sidx <= Len(ExceptBody)
    /\ IF Applies(ExceptBody[sidx].when)
       THEN StmtEffect(ExceptBody[sidx])
       ELSE UNCHANGED <<streamVars, completeCarried>>
    /\ sidx' = sidx + 1
    /\ UNCHANGED <<sphase, enable_streaming, enable_progress_tracking, found,
                   trackerRegistered, cleanupPc, observed>>

\* raise (line 283): the exception leaves process_emails_with_streaming.
SessionReraise ==
    /\ sphase = "except"
    /\ sidx = Len(ExceptBody) + 1
    /\ sphase' = "raised"
    /\ UNCHANGED <<streamVars, sidx, enable_streaming,
                   enable_progress_tracking, found, completeCarried,
                   trackerRegistered, cleanupPc, observed>>

(***************************************************************************)
(* cleanup_session: two statements, each atomic under the interpreter      *)
(* lock, with no lock of its own around the pair.                          *)
(***************************************************************************)
NoObservation == [seen |-> FALSE, stream |-> FALSE, tracker |-> FALSE]

\* stream_manager.remove_stream(session_id) (line 310)
CleanupRemoveStream ==
    /\ cleanupPc = "start"
    /\ cleanupPc' = "mid"
    /\ is_active' = IF registered THEN FALSE ELSE is_active
    /\ registered' = FALSE
    /\ UNCHANGED <<subscribers, last_heartbeat, faulty, clock, received,
                   completeReturned, lastEmit>>
    /\ UNCHANGED <<sphase, sidx, enable_streaming, enable_progress_tracking,
                   found, completeCarried, trackerRegistered, observed>>

\* progress_manager.remove_tracker(session_id) (line 311), and the return.
CleanupRemoveTracker ==
    /\ cleanupPc = "mid"
    /\ cleanupPc' = "done"
    /\ trackerRegistered' = FALSE
    /\ UNCHANGED streamVars
    /\ UNCHANGED <<sphase, sidx, enable_streaming, enable_progress_tracking,
                   found, completeCarried, observed>>

\* Another thread looks the session up in both registries
\* (stream_manager.get_stream, progress_manager.get_tracker) while the
\* thread in cleanup_session is not running.
ObserveRegistries ==
    /\ ~observed.seen
    /\ observed' = [seen |-> TRUE, stream |-> registered,
                    tracker |-> trackerRegistered]
    /\ UNCHANGED streamVars
    /\ UNCHANGED <<sphase, sidx, enable_streaming, enable_progress_tracking,
                   found, completeCarried, trackerRegistered, cleanupPc>>

(***************************************************************************)
(* ==============  BusinessRulesScorer: hard filters  ===================  *)
(* Optional fields of a record are kept as {} (absent, or the empty        *)
(* string / list the code's .get default stands for) or {value}.           *)
(* experience_years n stands for the text "n年", expected_salary and       *)
(* salary_range for the number the salary helpers extract, skills for the  *)
(* set of keywords that occur in the skills text.                          *)
(***************************************************************************)
VARIABLES
    hfCandidates,    \* parameter candidates of apply_hard_filters
    hfRequirements,  \* parameter project_requirements
    hfFiltered,      \* what apply_hard_filters returned
    hfRefiltered,    \* ... and what it returned for that list again
    hfDone,          \* TRUE once the two calls were made
    pstate,          \* the GraphState of vector_prefilter_candidates
    pUseVector,      \* MatchingEngine.use_vector_search of that call
    ppc              \* "start" or the branch vector_prefilter_candidates took

filterVars == <<hfCandidates, hfRequirements, hfFiltered, hfRefiltered,
                hfDone, pstate, pUseVector, ppc>>

Candidate(loc, exp, sal, skills) ==
    [location_preference |-> loc, experience_years |-> exp,
     expected_salary |-> sal, skills |-> skills]

CandidateKinds ==
    { Candidate({"tokyo"}, {5}, {40}, {{"spring", "sql"}}),
      Candidate({"osaka"}, {5}, {40}, {{"java"}}),
      Candidate({"tokyo"}, {2}, {40}, {{"java"}}),
      Candidate({"tokyo"}, {5}, {80}, {{"java"}}),
      Candidate({"tokyo"}, {5}, {40}, {{"python"}}),
      Candidate({}, {5}, {}, {{"java"}}),
      Candidate({"tokyo"}, {}, {40}, {{"java"}}),
      Candidate({"tokyo"}, {5}, {40}, {}),
      Candidate({}, {}, {}, {}) }

Requirements(loc, exp, sal, skills) ==
    [location |-> loc, min_experience_years |-> exp, salary_range |-> sal,
     required_skills |-> skills]

RequirementKinds ==
    { Requirements(loc, exp, sal, skills) :
        loc \in {{}, {"tokyo"}}, exp \in {{}, {0}, {3}},
        sal \in {{}, {50}}, skills \in {<<>>, <<"java">>, <<"java", "sql">>} }

\* self.skill_keywords, three of its categories.
skill_keywords ==
    [java |-> {"java", "spring", "springboot", "maven", "gradle"},
     python |-> {"python", "django", "flask", "fastapi", "pandas", "numpy"},
     database |-> {"mysql", "postgresql", "mongodb", "redis", "sql"}]

\* _location_matches: one of the two names is contained in the other; no
\* name of the model is part of another one, so that is equality.
_location_matches(candidate_location, required_location) ==
    candidate_location = required_location

\* _extract_experience_years(exp_text): 0 for no text, n for "n年".
_extract_experience_years(exp_text) == Get(exp_text, 0)

\* _salary_compatible(candidate_salary, budget_range)
_salary_compatible(candidate_salary, budget_range) ==
    candidate_salary <= budget_range

\* _has_skill(candidate_skills, required_skill)
_has_skill(candidate_skills, required_skill) ==
    IF \E cat \in DOMAIN skill_keywords : required_skill \in skill_keywords[cat]
    THEN LET cat == CHOOSE c \in DOMAIN skill_keywords :
                        required_skill \in skill_keywords[c]
         IN  skill_keywords[cat] \cap candidate_skills # {}
    ELSE required_skill \in candidate_skills

\* BusinessRulesScorer._passes_hard_filters(candidate, requirements)
_passes_hard_filters(candidate, requirements) ==
    /\ (requirements.location # {} /\ candidate.location_preference # {}) =>
          _location_matches(Get(candidate.location_preference, ""),
                            Get(requirements.location, ""))
    /\ Get(requirements.min_experience_years, 0) # 0 =>
          _extract_experience_years(candidate.experience_years)
              >= Get(requirements.min_experience_years, 0)
    /\ (requirements.salary_range # {} /\ candidate.expected_salary # {}) =>
          _salary_compatible(Get(candidate.expected_salary, 0),
                             Get(requirements.salary_range, 0))
    /\ \A k \in 1..Len(requirements.required_skills) :
          _has_skill(Get(candidate.skills, {}),
                     requirements.required_skills[k])

\* A variant that puts each passing candidate in front of the list.
RECURSIVE FilterLoop_Prepend(_, _, _)
FilterLoop_Prepend(filtered_candidates, candidates, requirements) ==
    IF candidates = <<>> THEN filtered_candidates
    ELSE FilterLoop_Prepend(
             IF _passes_hard_filters(Head(candidates), requirements)
             THEN <<Head(candidates)>> \o filtered_candidates
             ELSE filtered_candidates,
             Tail(candidates), requirements)

\* The for loop of apply_hard_filters.
RECURSIVE FilterLoop(_, _, _)
FilterLoop(filtered_candidates, candidates, requirements) ==
    IF candidates = <<>> THEN filtered_candidates
    ELSE FilterLoop(
             IF _passes_hard_filters(Head(candidates), requirements)
             THEN Append(filtered_candidates, Head(candidates))
             ELSE filtered_candidates,
             Tail(candidates), requirements)

\* BusinessRulesScorer.apply_hard_filters(candidates, project_requirements)
apply_hard_filters(candidates, project_requirements) ==
    FilterLoop(<<>>, candidates, project_requirements)

\* apply_hard_filters called on a list, and again on what it returned.
ApplyHardFilters ==
    /\ ~hfDone
    /\ hfFiltered' = apply_hard_filters(hfCandidates, hfRequirements)
    /\ hfRefiltered' = apply_hard_filters(hfFiltered', hfRequirements)
    /\ hfDone' = TRUE
    /\ UNCHANGED <<hfCandidates, hfRequirements, pstate, pUseVector, ppc>>

(***************************************************************************)
(* MatchingEngine.vector_prefilter_candidates.                             *)
(***************************************************************************)
\* A hard-filtered spreadsheet row and a vector store result for the
\* candidate numbered k.
HardFilteredItem(k) == [id |-> {k}, point_id |-> {}]
VectorResult(k) == [id |-> {k}, point_id |-> {1000 + k}]

\* item.get("id", item.get("point_id")); 0 stands for None.
ItemId(item) == Get(item.id, Get(item.point_id, 0))

\* The state a run hands to vector_prefilter_candidates after hard filtering
\* left the candidates 1..n.
PrefilterState(n, query) ==
    [query |-> query,
     hard_filtered_items |-> [k \in 1..n |-> HardFilteredItem(k)],
     prefiltered_items |-> <<>>,
     processing_log |-> <<>>,
     errors |-> <<>>]

\* What qdrant_service.search_candidates(query, limit=20, ...) can return
\* when n candidates were hard-filtered: the candidates a..b, of which those
\* above n did not pass the hard filters.
SearchResults(n) ==
    {[j \in 1..(b - a + 1) |-> VectorResult(a + j - 1)] :
        a \in 1..(n + 2), b \in 0..(n + 2)}

\* QdrantService.search_candidates: client is what the embedding call and
\* client.search do.  Every exception is caught in the method, which then
\* returns the empty list.
search_candidates(client) ==
    IF client.failed THEN <<>> ELSE client.points

\* The for loop over vector_results: the results whose id is the id of a
\* hard-filtered item.
RECURSIVE Intersect(_, _)
Intersect(vector_results, hard_filtered_ids) ==
    IF vector_results = <<>> THEN <<>>
    ELSE IF ItemId(Head(vector_results)) \in hard_filtered_ids
         THEN <<Head(vector_results)>>
                  \o Intersect(Tail(vector_results), hard_filtered_ids)
         ELSE Intersect(Tail(vector_results), hard_filtered_ids)

\* MatchingEngine.vector_prefilter_candidates(state); search is what the
\* similarity search does: it raises in the stage, or search_candidates
\* returns a list of results (absorbed: after it caught a failure).
vector_prefilter_candidates(state, useVector, search) ==
    LET logged == [state EXCEPT
                      !.processing_log = Append(@, "vector_prefilter")]
        hard_filtered == state.hard_filtered_items
    IN  IF ~useVector
        THEN [logged EXCEPT
                 !.prefiltered_items = hard_filtered,
                 !.processing_log = Append(@, "vector_disabled")]
        ELSE IF state.query = ""
        THEN [logged EXCEPT
                 !.prefiltered_items = Take(hard_filtered, 10),
                 !.processing_log = Append(@, "no_query")]
        ELSE IF search.raised
        THEN [logged EXCEPT
                 !.errors = Append(@, "vector_prefilter_failed"),
                 !.prefiltered_items = Take(hard_filtered, 10)]
        ELSE LET hard_filtered_ids == {ItemId(hard_filtered[k]) :
                                          k \in 1..Len(hard_filtered)}
                 vector_filtered == Intersect(search.results,
                                              hard_filtered_ids)
             IN  [logged EXCEPT
                     !.prefiltered_items = Take(vector_filtered, 10),
                     !.processing_log = Append(@, "vector_prefilter_done")]

\* The branch the call takes.
PrefilterBranch(state, useVector, search) ==
    IF ~useVector THEN "disabled"
    ELSE IF state.query = "" THEN "no_query"
    ELSE IF search.raised THEN "search_raised"
    ELSE IF search.absorbed THEN "search_absorbed"
    ELSE "search_ok"

\* One call of vector_prefilter_candidates.
RunVectorPrefilter ==
    /\ ppc = "start"
    /\ \E search \in
            {[raised |-> TRUE, absorbed |-> FALSE, results |-> <<>>]}
            \cup {[raised |-> FALSE, absorbed |-> client.failed,
                   results |-> search_candidates(client)] :
                     client \in
                         {[failed |-> TRUE, points |-> <<>>]}
                         \cup {[failed |-> FALSE, points |-> r] :
                                r \in SearchResults(
                                    Len(pstate.hard_filtered_items))}} :
          /\ pstate' = vector_prefilter_candidates(pstate, pUseVector, search)
          /\ ppc' = PrefilterBranch(pstate, pUseVector, search)
    /\ UNCHANGED <<hfCandidates, hfRequirements, hfFiltered, hfRefiltered,
                   hfDone, pUseVector>>

(***************************************************************************)
(* graphs/matching_graph.py: build_matching_graph.                         *)
(***************************************************************************)
VARIABLES
    gstate,     \* the GraphState of the run: the keys the routers read,
                \* and the errors the nodes appended
    gnode,      \* the node that runs next: "entry", a node, or "END"
    gtrace      \* the nodes that ran, in order

graphVars == <<gstate, gnode, gtrace>>

\* The states a run can start with: each key absent, or with a value.
GraphStateKinds ==
    [use_advanced_matching : {{}, {TRUE}, {FALSE}},
     use_hybrid_matching : {{}, {TRUE}, {FALSE}},
     match_type : {{}, {"project_to_resume"}, {"resume_to_project"}},
     errors : {<<>>}]

\* route_matching_strategy(state)
route_matching_strategy(state) ==
    LET use_advanced_matching == Get(state.use_advanced_matching, TRUE)
        match_type == Get(state.match_type, "None")
    IN  IF use_advanced_matching /\ match_type = "project_to_resume"
        THEN "hard_filter"
        ELSE IF match_type = "project_to_resume"
        THEN "prefilter_candidates"
        ELSE "prefilter_projects"

\* route_matching_method(state)
route_matching_method(state) ==
    LET use_hybrid_matching == Get(state.use_hybrid_matching, TRUE)
    IN  IF use_hybrid_matching THEN "hybrid_matching" ELSE "ai_matching"

\* The edges of the workflow: the node that follows node in a run whose
\* state is state.
NextNode(node, state) ==
    CASE node = "entry" -> route_matching_strategy(state)
      [] node = "hard_filter" -> "vector_prefilter"
      [] node \in {"vector_prefilter", "prefilter_candidates",
                   "prefilter_projects"} -> route_matching_method(state)
      [] node \in {"hybrid_matching", "ai_matching"} -> "save_results"
      [] node = "save_results" -> "END"

\* The conditional entry point: the run picks its first node.
GraphEnter ==
    /\ gnode = "entry"
    /\ gnode' = NextNode("entry", gstate)
    /\ UNCHANGED <<gstate, gtrace>>

\* One node runs and the run follows the edge that leaves it.  Every node
\* catches what its work raises and appends to state["errors"] instead; no
\* node writes a key the routers read.
GraphStep ==
    /\ gnode \notin {"entry", "END", "idle"}
    /\ \E failed \in BOOLEAN :
          gstate' = IF failed
                    THEN [gstate EXCEPT !.errors = Append(@, gnode)]
                    ELSE gstate
    /\ gtrace' = Append(gtrace, gnode)
    /\ gnode' = NextNode(gnode, gstate')

(***************************************************************************)
(* services/progress_service.py: ProgressInfo and ProgressTracker.  The    *)
(* time fields (start_time, elapsed_time, estimated_remaining) and the     *)
(* message are left out: no count and no percentage is computed from them. *)
(***************************************************************************)
VARIABLES
    tracker,        \* the ProgressTracker: total_stages, current_stage,
                    \* stages_progress, is_completed
    tcallbacks,     \* ProgressTracker.callbacks
    tnotified,      \* the calls made to the callbacks, in order
    tlast,          \* the last method called on the tracker
    tcalls          \* how many methods were called

trackerVars == <<tracker, tcallbacks, tnotified, tlast, tcalls>>

\* Two of the members of ProgressStage a session tracks.
ProgressStages == {"email_classification", "matching_analysis"}

\* round((current / total) * 100, 2), in hundredths of a percent.
Percentage(current, total) ==
    (2 * current * 10000 + total) \div (2 * total)

\* ProgressInfo.__post_init__
__post_init__(info) ==
    IF info.total > 0
    THEN [info EXCEPT
             !.percentage = Percentage(info.current, info.total)]
    ELSE info

\* ProgressInfo(stage=stage, current=current, total=total): the dataclass
\* sets percentage to its default 0.0 and then calls __post_init__.  error
\* is metadata["error"], absent (FALSE) until set_error sets it.
ProgressInfo(stage, current, total) ==
    __post_init__([stage |-> stage, current |-> current, total |-> total,
                   percentage |-> 0, error |-> FALSE])

\* ProgressTracker(session_id, total_stages)
NewTracker(total_stages) ==
    [total_stages |-> total_stages,
     current_stage |-> 0,
     stages_progress |-> [s \in ProgressStages |-> {}],
     is_completed |-> FALSE]

\* ProgressTracker._notify_callbacks(progress): every callback is called in
\* turn; what a callback raises is caught and logged.
_notify_callbacks(notified, callbacks, info) ==
    notified \o [k \in 1..Len(callbacks) |->
                    [callback |-> callbacks[k], progress |-> info]]

\* The tracker after start_stage(stage, total).
StartedTracker(t, stage, total) ==
    [t EXCEPT !.current_stage = @ + 1,
              !.stages_progress[stage] = {ProgressInfo(stage, 0, total)}]

\* ProgressTracker.start_stage(stage, total)
start_stage(stage, total) ==
    /\ tracker' = StartedTracker(tracker, stage, total)
    /\ tnotified' = _notify_callbacks(tnotified, tcallbacks,
                                      ProgressInfo(stage, 0, total))

\* ProgressTracker.update_progress(stage, current)
update_progress(stage, current) ==
    IF tracker.stages_progress[stage] = {}
    THEN start_stage(stage, current)
    ELSE LET old == CHOOSE p \in tracker.stages_progress[stage] : TRUE
             info == __post_init__([old EXCEPT !.current = current])
         IN  /\ tracker' = [tracker EXCEPT
                               !.stages_progress[stage] = {info}]
             /\ tnotified' = _notify_callbacks(tnotified, tcallbacks,
                                               info)

\* ProgressTracker.complete_stage(stage)
complete_stage(stage) ==
    IF tracker.stages_progress[stage] # {}
    THEN LET old == CHOOSE p \in tracker.stages_progress[stage] : TRUE
             info == __post_init__([old EXCEPT !.current = old.total])
         IN  /\ tracker' = [tracker EXCEPT
                               !.stages_progress[stage] = {info}]
             /\ tnotified' = _notify_callbacks(tnotified, tcallbacks,
                                               info)
    ELSE UNCHANGED <<tracker, tnotified>>

\* A variant of set_error that creates the stage it does not find.
set_error_AutoCreate(stage) ==
    LET info == [ProgressInfo(stage, 0, 0) EXCEPT !.error = TRUE]
    IN  /\ tracker' = [tracker EXCEPT !.stages_progress[stage] = {info}]
        /\ tnotified' = _notify_callbacks(tnotified, tcallbacks, info)

\* ProgressTracker.set_error(stage, error_message)
set_error(stage) ==
    IF tracker.stages_progress[stage] # {}
    THEN LET old == CHOOSE p \in tracker.stages_progress[stage] : TRUE
             info == [old EXCEPT !.error = TRUE]
         IN  /\ tracker' = [tracker EXCEPT
                               !.stages_progress[stage] = {info}]
             /\ tnotified' = _notify_callbacks(tnotified, tcallbacks,
                                               info)
    ELSE UNCHANGED <<tracker, tnotified>>

\* ProgressTracker.complete_session()
complete_session ==
    /\ tracker' = [tracker EXCEPT !.is_completed = TRUE]
    /\ tnotified' = _notify_callbacks(tnotified, tcallbacks,
                        ProgressInfo("completion", tracker.total_stages,
                                     tracker.total_stages))

\* A caller calls one method of the tracker; value is the count it passes
\* (0 when the method takes none).
TrackerCall(op, stage, value) ==
    /\ tcalls < MaxTrackerCalls
    /\ tcalls' = tcalls + 1
    /\ tlast' = [op |-> op, stage |-> stage, value |-> value]
    /\ UNCHANGED tcallbacks

StartStage ==
    \E stage \in ProgressStages, total \in 0..MaxTotal :
        TrackerCall("start_stage", stage, total)
            /\ start_stage(stage, total)

UpdateProgress ==
    \E stage \in ProgressStages, current \in 0..MaxTotal :
        TrackerCall("update_progress", stage, current)
            /\ update_progress(stage, current)

CompleteStage ==
    \E stage \in ProgressStages :
        TrackerCall("complete_stage", stage, 0) /\ complete_stage(stage)

SetError ==
    \E stage \in ProgressStages :
        TrackerCall("set_error", stage, 0) /\ set_error(stage)

CompleteSession ==
    TrackerCall("complete_session", "completion", 0) /\ complete_session

(***************************************************************************)
(* StreamManager and ProgressManager: the registries of the sessions.      *)
(* An instance is numbered by its creation; 0 stands for None.             *)
(***************************************************************************)
VARIABLES
    _streams,       \* StreamManager._streams: session id -> instance
    trackers,       \* ProgressManager.trackers: session id -> instance
    trackerOf,      \* the ProgressTracker objects, by instance
    inactive,       \* the instances removed from their registry; a
                    \* removed stream has is_active False
    held,           \* the instances that callers were handed
    ncreated,       \* how many instances were constructed
    mcallbacks,     \* the progress callbacks handed to callers
    mlast,          \* the last call made on a manager or a callback
    mcalls          \* how many calls were made

mgrVars == <<_streams, trackers, trackerOf, inactive, held, ncreated,
             mcallbacks, mlast, mcalls>>

SessionIds == {"s1", "s2"}

\* A caller calls op, through the callback cb if it is a callback that is
\* called; the call constructs `made` instances.
ManagerCallThrough(op, session_id, made, cb) ==
    /\ mcalls < MaxManagerCalls
    /\ ncreated + made <= MaxInstances
    /\ mcalls' = mcalls + 1
    /\ ncreated' = ncreated + made
    /\ mlast' = [op |-> op, session_id |-> session_id, callback |-> cb]

ManagerCall(op, session_id, made) ==
    ManagerCallThrough(op, session_id, made, {})

Handed(kind, session_id, instance) ==
    [kind |-> kind, session_id |-> session_id, instance |-> instance]

\* StreamManager.create_stream(session_id)
create_stream(session_id) ==
    IF _streams[session_id] # 0
    THEN /\ ManagerCall("create_stream", session_id, 0)
         /\ held' = held \cup
                {Handed("stream", session_id, _streams[session_id])}
         /\ UNCHANGED <<_streams, trackers, trackerOf, inactive, mcallbacks>>
    ELSE /\ ManagerCall("create_stream", session_id, 1)
         /\ _streams' = [_streams EXCEPT ![session_id] = ncreated + 1]
         /\ held' = held \cup {Handed("stream", session_id, ncreated + 1)}
         /\ UNCHANGED <<trackers, trackerOf, inactive, mcallbacks>>

\* The registry and the objects after ProgressManager.create_tracker; there
\* are no global callbacks.
TrackerCreated(session_id) ==
    /\ trackers' = [trackers EXCEPT ![session_id] = ncreated + 1]
    /\ trackerOf' = [trackerOf EXCEPT ![ncreated + 1] = NewTracker(8)]

\* ProgressManager.create_tracker(session_id)
create_tracker(session_id) ==
    /\ ManagerCall("create_tracker", session_id, 1)
    /\ TrackerCreated(session_id)
    /\ held' = held \cup {Handed("tracker", session_id, ncreated + 1)}
    /\ UNCHANGED <<_streams, inactive, mcallbacks>>

\* StreamManager.get_stream / ProgressManager.get_tracker
get_instance(kind, session_id) ==
    LET registry == IF kind = "stream" THEN _streams ELSE trackers
    IN  /\ ManagerCall("get", session_id, 0)
        /\ held' = IF registry[session_id] # 0
                   THEN held \cup
                            {Handed(kind, session_id, registry[session_id])}
                   ELSE held
        /\ UNCHANGED <<_streams, trackers, trackerOf, inactive, mcallbacks>>

\* StreamManager.remove_stream(session_id), on the registry alone
manager_remove_stream(session_id) ==
    /\ ManagerCall("remove_stream", session_id, 0)
    /\ inactive' = IF _streams[session_id] # 0
                   THEN inactive \cup {_streams[session_id]}
                   ELSE inactive
    /\ _streams' = [_streams EXCEPT ![session_id] = 0]
    /\ UNCHANGED <<trackers, trackerOf, held, mcallbacks>>

\* ProgressManager.remove_tracker(session_id)
remove_tracker(session_id) ==
    /\ ManagerCall("remove_tracker", session_id, 0)
    /\ inactive' = IF trackers[session_id] # 0
                   THEN inactive \cup {trackers[session_id]}
                   ELSE inactive
    /\ trackers' = [trackers EXCEPT ![session_id] = 0]
    /\ UNCHANGED <<_streams, trackerOf, held, mcallbacks>>

\* The callback a caller is handed: the tracker it closes over (0 for the
\* lambda that does nothing), and whether the session had a tracker.
ProgressCallback(kind, session_id, stage, instance, found_tracker) ==
    [kind |-> kind, session_id |-> session_id, stage |-> stage,
     tracker |-> instance, found_tracker |-> found_tracker]

\* ProgressManager.create_batch_callback(session_id, stage)
create_batch_callback(session_id, stage) ==
    IF trackers[session_id] = 0
    THEN /\ ManagerCall("create_batch_callback", session_id, 1)
         /\ TrackerCreated(session_id)
         /\ mcallbacks' = mcallbacks \cup
                {ProgressCallback("batch", session_id, stage, ncreated + 1,
                                  FALSE)}
         /\ UNCHANGED <<_streams, inactive, held>>
    ELSE /\ ManagerCall("create_batch_callback", session_id, 0)
         /\ mcallbacks' = mcallbacks \cup
                {ProgressCallback("batch", session_id, stage,
                                  trackers[session_id], TRUE)}
         /\ UNCHANGED <<_streams, trackers, trackerOf, inactive, held>>

\* ProgressManager.create_async_progress_callback(session_id, stage)
create_async_progress_callback(session_id, stage) ==
    /\ ManagerCall("create_async_progress_callback", session_id, 0)
    /\ mcallbacks' = mcallbacks \cup
           {IF trackers[session_id] = 0
            THEN ProgressCallback("async", session_id, stage, 0, FALSE)
            ELSE ProgressCallback("async", session_id, stage,
                                  trackers[session_id], TRUE)}
    /\ UNCHANGED <<_streams, trackers, trackerOf, inactive, held>>

\* The tracker t after update_progress(stage, current).
UpdatedTracker(t, stage, current) ==
    IF t.stages_progress[stage] = {}
    THEN StartedTracker(t, stage, current)
    ELSE LET old == CHOOSE p \in t.stages_progress[stage] : TRUE
         IN  [t EXCEPT !.stages_progress[stage] =
                          {__post_init__([old EXCEPT !.current = current])}]

\* batch_callback(current, total) and progress_callback(current, total):
\* the body of the callback cb.
CallbackBody(cb, current, total) ==
    IF cb.tracker = 0 THEN trackerOf
    ELSE LET t == trackerOf[cb.tracker]
         IN  [trackerOf EXCEPT ![cb.tracker] =
                 IF cb.kind = "batch" /\ t.stages_progress[cb.stage] = {}
                 THEN StartedTracker(t, cb.stage, total)
                 ELSE UpdatedTracker(t, cb.stage, current)]

\* A caller reports progress through a callback it was handed.
InvokeCallback ==
    \E cb \in mcallbacks, current \in 1..MaxTotal :
        /\ ManagerCallThrough("callback", cb.session_id, 0, {cb})
        /\ trackerOf' = CallbackBody(cb, current, MaxTotal)
        /\ UNCHANGED <<_streams, trackers, inactive, held, mcallbacks>>

CreateStream == \E s \in SessionIds : create_stream(s)
CreateTracker == \E s \in SessionIds : create_tracker(s)
GetInstance == \E k \in {"stream", "tracker"}, s \in SessionIds :
                   get_instance(k, s)
RemoveStream == \E s \in SessionIds : manager_remove_stream(s)
RemoveTracker == \E s \in SessionIds : remove_tracker(s)
CreateBatchCallback ==
    \E s \in SessionIds : create_batch_callback(s, "email_classification")
CreateAsyncProgressCallback ==
    \E s \in SessionIds :
        create_async_progress_callback(s, "email_classification")

(***************************************************************************)
(* BusinessRulesScorer.calculate_business_score.  A text is represented by *)
(* what the scorer reads in it: the skill keywords it contains, the years  *)
(* its patterns extract, the degree or the certificate it names.           *)
(***************************************************************************)
VARIABLES
    scCandidate,    \* the candidate record
    scProject,      \* the project record
    scResult,       \* the sub-scores and the total of the call
    scDone          \* TRUE once calculate_business_score has returned

scoreVars == <<scCandidate, scProject, scResult, scDone>>

\* The candidate records: skills is the set of keywords in the text (empty
\* for no text), experience_years the years in the text ("-3年" gives -3).
ScoreCandidates ==
    [skills : {{}, {"java"}, {"spring", "django"}, {"python", "sql", "java"},
               {"cobol"}},
     experience_years : {{}, {0 - 3}, {2}, {5}, {8}},
     education : {"", "master", "bachelor", "college", "highschool"},
     certificates : {"", "aws", "pmp", "other"}]

\* The project records: tech_requirements with its keywords and the years
\* it asks for (none, or by a pattern or a seniority word).
ScoreProjects ==
    [tech_requirements :
         [keywords : {{}, {"java"}, {"java", "python"},
                      {"java", "python", "sql"}, {"cobol"}},
          years : {{}, {1}, {3}, {5}}],
     work_style : {"", "remote", "on-site"}]

\* A variant that scores 40 per matched category.
_calculate_skill_score_PerMatch(candidate_skills, project_requirements) ==
    IF candidate_skills = {} \/ project_requirements = {} THEN 0
    ELSE LET required == {c \in DOMAIN skill_keywords :
                             skill_keywords[c] \cap project_requirements # {}}
             matches == {c \in required :
                            skill_keywords[c] \cap candidate_skills # {}}
         IN  IF required = {} THEN 20 ELSE 40 * Cardinality(matches)

\* BusinessRulesScorer._calculate_skill_score
_calculate_skill_score(candidate_skills, project_requirements) ==
    IF candidate_skills = {} \/ project_requirements = {} THEN 0
    ELSE LET required == {c \in DOMAIN skill_keywords :
                             skill_keywords[c] \cap project_requirements # {}}
             matches == {c \in required :
                            skill_keywords[c] \cap candidate_skills # {}}
             total_matches == Cardinality(matches)
             total_requirements == Cardinality(required)
         IN  IF total_requirements = 0 THEN 20
             ELSE Min(40, (total_matches * 40) \div total_requirements)

\* BusinessRulesScorer._extract_required_experience
_extract_required_experience(requirements) == Get(requirements.years, 0)

\* max(0, n)
Max0(n) == IF n < 0 THEN 0 ELSE n

\* BusinessRulesScorer._calculate_experience_score
_calculate_experience_score(candidate_exp, project_requirements) ==
    LET candidate_years == _extract_experience_years(candidate_exp)
        required_years == _extract_required_experience(project_requirements)
    IN  IF required_years = 0 THEN 15
        ELSE IF candidate_years >= required_years
        THEN IF 2 * candidate_years >= 3 * required_years THEN 30 ELSE 25
        ELSE Max0((candidate_years * 20) \div required_years)

\* BusinessRulesScorer._calculate_other_factors_score
_calculate_other_factors_score(candidate, project) ==
    LET work == CASE project.work_style = "remote" -> 10
                  [] project.work_style = "on-site" -> 5
                  [] OTHER -> 0
        education == CASE candidate.education = "master" -> 10
                       [] candidate.education = "bachelor" -> 8
                       [] candidate.education = "college" -> 6
                       [] OTHER -> 0
        certificates == CASE candidate.certificates = "" -> 0
                          [] candidate.certificates = "aws" -> 10
                          [] candidate.certificates = "pmp" -> 8
                          [] OTHER -> 5
    IN  Min(30, work + education + certificates)

\* BusinessRulesScorer.calculate_business_score(candidate, project)
calculate_business_score(candidate, project) ==
    LET skill_score == _calculate_skill_score(
                           candidate.skills,
                           project.tech_requirements.keywords)
        exp_score == _calculate_experience_score(
                         candidate.experience_years,
                         project.tech_requirements)
        other_score == _calculate_other_factors_score(candidate, project)
    IN  [skill_score |-> skill_score, exp_score |-> exp_score,
         other_score |-> other_score,
         total_score |-> skill_score + exp_score + other_score]

\* One call of calculate_business_score.
CalculateBusinessScore ==
    /\ ~scDone
    /\ scResult' = calculate_business_score(scCandidate, scProject)
    /\ scDone' = TRUE
    /\ UNCHANGED <<scCandidate, scProject>>

(***************************************************************************)
(* StreamingService with two threads and callbacks that call back into the *)
(* stream.  A thread is between two statements of emit_event at any time;  *)
(* there is no lock in the class.                                          *)
(***************************************************************************)
VARIABLES
    cIsActive,      \* StreamingService.is_active
    cReceived,      \* per callback: the types of the events it was called
                    \* with, in order
    cStack,         \* per thread: its emit_event calls in progress, the
                    \* innermost last
    cMainPc,        \* the thread that calls complete(): "call", "emitting",
                    \* "done"
    cEmitsLeft,     \* the emit_progress calls the other thread still makes
    cReentrant      \* the callbacks that call emit_status() when they are
                    \* handed the COMPLETE event

concVars == <<cIsActive, cReceived, cStack, cMainPc, cEmitsLeft, cReentrant>>

Threads == {"main", "worker"}

\* self.subscribers of the stream: both callbacks are subscribed.
cSubscribers == <<"cb1", "cb2">>

\* An emit_event call in progress: next = 0 before `if not self.is_active`,
\* else the index of the subscriber the for loop calls next.
EmitFrame(type, next) == [event_type |-> type, next |-> next]

Top(stack) == stack[Len(stack)]
Pop(stack) == SubSeq(stack, 1, Len(stack) - 1)

\* complete() is called: it calls emit_event(COMPLETE, ...).
CallComplete ==
    /\ cMainPc = "call"
    /\ cMainPc' = "emitting"
    /\ cStack' = [cStack EXCEPT !["main"] = Append(@, EmitFrame(COMPLETE, 0))]
    /\ UNCHANGED <<cIsActive, cReceived, cEmitsLeft, cReentrant>>

\* The other thread calls emit_progress(), which calls emit_event.
CallEmit ==
    /\ cStack["worker"] = <<>>
    /\ cEmitsLeft > 0
    /\ cEmitsLeft' = cEmitsLeft - 1
    /\ cStack' = [cStack EXCEPT
                     !["worker"] = Append(@, EmitFrame(PROGRESS, 0))]
    /\ UNCHANGED <<cIsActive, cReceived, cMainPc, cReentrant>>

\* if not self.is_active: return
EmitCheckActive(t) ==
    /\ cStack[t] # <<>>
    /\ Top(cStack[t]).next = 0
    /\ cStack' = [cStack EXCEPT ![t] =
                     IF cIsActive
                     THEN Append(Pop(@), EmitFrame(Top(@).event_type, 1))
                     ELSE Pop(@)]
    /\ UNCHANGED <<cIsActive, cReceived, cMainPc, cEmitsLeft, cReentrant>>

\* One turn of `for callback in self.subscribers: callback(event)`.  A
\* callback that calls back into the stream starts its emit_event call
\* before the loop goes on.
EmitCallback(t) ==
    /\ cStack[t] # <<>>
    /\ Top(cStack[t]).next \in 1..Len(cSubscribers)
    /\ LET frame == Top(cStack[t])
           callback == cSubscribers[frame.next]
           after == Append(Pop(cStack[t]),
                           EmitFrame(frame.event_type, frame.next + 1))
       IN  /\ cReceived' = [cReceived EXCEPT
                               ![callback] = Append(@, frame.event_type)]
           /\ cStack' = [cStack EXCEPT ![t] =
                   IF callback \in cReentrant /\ frame.event_type = COMPLETE
                   THEN Append(after, EmitFrame(STATUS, 0))
                   ELSE after]
    /\ UNCHANGED <<cIsActive, cMainPc, cEmitsLeft, cReentrant>>

\* The for loop is over: emit_event returns.
EmitReturn(t) ==
    /\ cStack[t] # <<>>
    /\ Top(cStack[t]).next > Len(cSubscribers)
    /\ cStack' = [cStack EXCEPT ![t] = Pop(@)]
    /\ UNCHANGED <<cIsActive, cReceived, cMainPc, cEmitsLeft, cReentrant>>

\* complete(): emit_event has returned; self.is_active = False.
CompleteSetInactive ==
    /\ cMainPc = "emitting"
    /\ cStack["main"] = <<>>
    /\ cIsActive' = FALSE
    /\ cMainPc' = "done"
    /\ UNCHANGED <<cReceived, cStack, cEmitsLeft, cReentrant>>

(***************************************************************************)
(* ai_matching with the response of the relevance service kept on record.  *)
(***************************************************************************)
VARIABLES
    llmResponse     \* what the last chain.invoke call of ai_matching did

aiRespVars == <<llmResponse>>

NoResponse == [kind |-> "none", matches |-> <<>>]

\* One turn of the retry loop of ai_matching.
AiAttemptObserved ==
    \E resp \in LlmResponses :
        AiAttemptWith(resp) /\ llmResponse' = resp

(***************************************************************************)
(* hybrid_matching with the single-pair relevance calls kept on record.    *)
(***************************************************************************)
VARIABLES
    aiCalls     \* the last hybrid_matching call: whether the state had a
                \* project, what chain.invoke did for each item, and the
                \* item at which the business scorer raised (0: none)

hybridCallVars == <<aiCalls>>

NoCalls == [project_info |-> FALSE, calls |-> <<>>, failAt |-> 0]

\* What chain.invoke of _get_ai_score can do for one item: raise, or
\* return a dict with or without "score".
AiCallOutcomes ==
    {[raised |-> TRUE, score |-> {}]}
    \cup {[raised |-> FALSE, score |-> s] : s \in {{}, {80}, {150}}}

\* MatchingEngine._get_ai_score(candidate_item, project_info): the score
\* it returns.
_get_ai_score(project_info, outcome) ==
    IF ~project_info THEN NeutralAiScore
    ELSE IF outcome.raised THEN NeutralAiScore
    ELSE Get(outcome.score, NeutralAiScore)

\* A call of hybrid_matching(state).
RunHybridObserved ==
    /\ mpc = "start"
    /\ stageRun' = "hybrid_matching"
    /\ \E project_info \in BOOLEAN,
          calls \in [ItemsOf(Take(mstate.prefiltered_items, 5))
                        -> AiCallOutcomes],
          failAt \in 0..Len(Take(mstate.prefiltered_items, 5)) :
          LET aiOf == [i \in DOMAIN calls |->
                          _get_ai_score(project_info, calls[i])]
          IN  /\ mstate' = hybrid_matching(mstate, use_vector_search,
                                           matchingWeights, aiOf, failAt)
              /\ hybridRaised' =
                    (/\ mstate.prefiltered_items # <<>>
                     /\ HybridTryRaises(Take(mstate.prefiltered_items, 5),
                                        aiOf, failAt, matchingWeights))
              /\ aiCalls' = [project_info |-> project_info,
                             calls |-> calls, failAt |-> failAt]
    /\ mpc' = "done"
    /\ UNCHANGED <<use_vector_search, matchingWeights, configMaxRetries,
                   attempt, llmCalls, aiFellBack>>

(***************************************************************************)
(* process_emails_with_streaming with progress tracking enabled: the calls *)
(* the run makes on its ProgressTracker (the variables of the              *)
(* ProgressTracker section), statement by statement.                       *)
(***************************************************************************)
VARIABLES
    rphase,         \* "idle", "try", "except", "returned", "raised"
    ridx,           \* index of the next statement of the try block
    rEmails,        \* len(emails)
    rCandidates,    \* len(candidates) after the e-mail stage
    rProjects,      \* len(projects) after the e-mail stage
    rtrace          \* the calls made on the tracker, in order

runVars == <<rphase, ridx, rEmails, rCandidates, rProjects, rtrace>>

\* The stages a run goes through, in the order of the code.
RunStages ==
    <<"initialization", "email_classification", "vector_generation",
      "database_storage", "matching_analysis", "result_generation">>

\* progress_manager.create_tracker(session_id, total_stages=6)
RunTracker ==
    [NewTracker(6) EXCEPT
        !.stages_progress =
            [s \in {RunStages[k] : k \in 1..Len(RunStages)}
                      \cup {"completion"} |-> {}]]

\* One statement of the try block: a call on the tracker with the count it
\* passes and the condition under which the code makes it, or ("work") a
\* computation between two calls.
RunStmt(op, stage, count, when) ==
    [op |-> op, stage |-> stage, count |-> count, when |-> when]

InitializationStage ==
    << RunStmt("start_stage", "initialization", "one", "always"),     \* 76
       RunStmt("complete_stage", "initialization", "none", "always") >>

EmailStage ==
    << RunStmt("start_stage", "email_classification", "emails", "always"),
       RunStmt("update_progress", "email_classification", "emails",
               "emails"),                      \* 93 email_callback
       RunStmt("work", "none", "none", "always"),  \* 97 process_emails_batch
       RunStmt("complete_stage", "email_classification", "none", "always"),
       RunStmt("work", "none", "none", "always") >>    \* 110-125

VectorStage ==
    << RunStmt("start_stage", "vector_generation", "items", "items"), \* 129
       RunStmt("work", "none", "none", "items"),   \* 132-150 embeddings
       RunStmt("complete_stage", "vector_generation", "none", "always") >>

StorageStage ==
    << RunStmt("start_stage", "database_storage", "items", "items"),  \* 158
       RunStmt("update_progress", "database_storage", "candidates",
               "candidates"),                                         \* 169
       RunStmt("update_progress", "database_storage", "items",
               "projects"),                                           \* 182
       RunStmt("complete_stage", "database_storage", "none", "always") >>

MatchingStage ==
    << RunStmt("start_stage", "matching_analysis", "pairs", "both"),  \* 193
       RunStmt("update_progress", "matching_analysis", "pairs", "both"),
       RunStmt("work", "none", "none", "both"),  \* 215 process_matches_batch
       RunStmt("complete_stage", "matching_analysis", "none", "both") >>

ResultStage ==
    << RunStmt("start_stage", "result_generation", "one", "always"),  \* 226
       RunStmt("work", "none", "none", "always"),      \* 229 final_result
       RunStmt("complete_stage", "result_generation", "none", "always"),
       RunStmt("complete_session", "completion", "none", "always") >> \* 259

\* A variant in which the storage stage is left open.
RunBody_StorageLeftOpen ==
    InitializationStage \o EmailStage \o VectorStage
        \o SubSeq(StorageStage, 1, 3) \o MatchingStage \o ResultStage

\* The try block (lines 73-270) as far as the tracker is concerned.  The
\* statements that follow complete_session (get_overall_progress, the
\* guarded division, StreamingService.complete) raise nothing.
RunBody ==
    InitializationStage \o EmailStage \o VectorStage \o StorageStage
        \o MatchingStage \o ResultStage

\* TRUE iff the run makes the call of a statement with this condition.
RunApplies(when) ==
    CASE when = "always" -> TRUE
      [] when = "emails" -> rEmails > 0
      [] when = "items" -> rCandidates + rProjects > 0
      [] when = "candidates" -> rCandidates > 0
      [] when = "projects" -> rProjects > 0
      [] when = "both" -> rCandidates > 0 /\ rProjects > 0

\* The count a statement passes.
RunCount(count) ==
    CASE count = "none" -> 0
      [] count = "one" -> 1
      [] count = "emails" -> rEmails
      [] count = "items" -> rCandidates + rProjects
      [] count = "candidates" -> rCandidates
      [] count = "pairs" -> rCandidates * rProjects

\* The call of a statement on the tracker.
RunTrackerCall(s) ==
    /\ CASE s.op = "start_stage" -> start_stage(s.stage, RunCount(s.count))
         [] s.op = "update_progress" ->
                update_progress(s.stage, RunCount(s.count))
         [] s.op = "complete_stage" -> complete_stage(s.stage)
         [] s.op = "complete_session" -> complete_session
         [] s.op = "set_error" -> set_error(s.stage)
    /\ tlast' = [op |-> s.op, stage |-> s.stage,
                 value |-> RunCount(s.count)]
    /\ tcalls' = tcalls + 1
    /\ rtrace' = Append(rtrace, [op |-> s.op, stage |-> s.stage])
    /\ UNCHANGED tcallbacks

\* The next statement of the try block is skipped or runs to its end.
RunTryStep ==
    /\ rphase = "try"
    /\ ridx <= Len(RunBody)
    /\ IF RunBody[ridx].op # "work" /\ RunApplies(RunBody[ridx].when)
       THEN RunTrackerCall(RunBody[ridx])
       ELSE UNCHANGED <<trackerVars, rtrace>>
    /\ ridx' = ridx + 1
    /\ UNCHANGED <<rphase, rEmails, rCandidates, rProjects>>

\* A computation of the try block raises.
RunTryRaise ==
    /\ rphase = "try"
    /\ ridx <= Len(RunBody)
    /\ RunBody[ridx].op = "work" /\ RunApplies(RunBody[ridx].when)
    /\ rphase' = "except"
    /\ UNCHANGED <<trackerVars, ridx, rEmails, rCandidates, rProjects,
                   rtrace>>

\* return final_result (line 270)
RunReturn ==
    /\ rphase = "try"
    /\ ridx = Len(RunBody) + 1
    /\ rphase' = "returned"
    /\ UNCHANGED <<trackerVars, ridx, rEmails, rCandidates, rProjects,
                   rtrace>>

\* The except branch: progress_tracker.set_error(COMPLETION, error_msg)
\* (line 281), and the raise.
RunExcept ==
    /\ rphase = "except"
    /\ RunTrackerCall(RunStmt("set_error", "completion", "none", "always"))
    /\ rphase' = "raised"
    /\ UNCHANGED <<ridx, rEmails, rCandidates, rProjects>>

(***************************************************************************)
(* StreamingService.start_heartbeat_loop: a coroutine on the event loop.   *)
(* Between two awaits a coroutine runs alone, so one turn of the loop (the *)
(* test of the while and emit_heartbeat, up to await asyncio.sleep) is one *)
(* step, and the other calls on the stream (the variables of the           *)
(* StreamingService section) come between two turns.                       *)
(***************************************************************************)
VARIABLES
    hbpc        \* the loop: "none", "start" (created, not yet run),
                \* "sleep" (in await asyncio.sleep), "ended"

heartbeatVars == <<hbpc>>

\* A variant of the turn that does not test is_active.
HeartbeatBeat_NoTest ==
    /\ hbpc \in {"start", "sleep"}
    /\ emit_heartbeat
    /\ hbpc' = "sleep"

\* The loop runs: while self.is_active holds; emit_heartbeat(); sleep.
HeartbeatBeat ==
    /\ hbpc \in {"start", "sleep"}
    /\ is_active
    /\ emit_heartbeat
    /\ hbpc' = "sleep"

\* The loop runs: while self.is_active does not hold; the coroutine returns.
HeartbeatExit ==
    /\ hbpc \in {"start", "sleep"}
    /\ ~is_active
    /\ hbpc' = "ended"
    /\ UNCHANGED streamVars

(***************************************************************************)
(* emit_event with callbacks that subscribe or unsubscribe while the event *)
(* is being delivered.  `for callback in self.subscribers` walks the list  *)
(* itself: the iterator keeps an index and reads the list anew each turn.  *)
(***************************************************************************)
VARIABLES
    itSubs,         \* StreamingService.subscribers
    itIdx,          \* the index of the list iterator (from 1)
    itAtStart,      \* self.subscribers when emit_event was called
    itCalled,       \* the callbacks called with the event, in order
    itDoes,         \* per callback: what it does when it is called
    itpc            \* "none", "start", "loop", "done"

iterVars == <<itSubs, itIdx, itAtStart, itCalled, itDoes, itpc>>

IterCallbacks == {"cb1", "cb2", "cb3"}

\* What a callback can do with the stream when it is called.
CallbackDoes ==
    {[op |-> "nothing", target |-> "none"]}
    \cup {[op |-> o, target |-> t] :
             o \in {"subscribe", "unsubscribe"}, t \in IterCallbacks}

\* self.subscribers after the body of a callback has run.
AfterCallback(subs, does) ==
    CASE does.op = "nothing" -> subs
      [] does.op = "subscribe" -> Append(subs, does.target)
      [] does.op = "unsubscribe" -> ListRemove(subs, does.target)

\* emit_event is called on the active stream and builds its event.
IterStart ==
    /\ itpc = "start"
    /\ itpc' = "loop"
    /\ itIdx' = 1
    /\ UNCHANGED <<itSubs, itAtStart, itCalled, itDoes>>

\* One turn of the for loop: the iterator hands out self.subscribers[index]
\* and the callback runs.
IterCall ==
    /\ itpc = "loop"
    /\ itIdx <= Len(itSubs)
    /\ Len(AfterCallback(itSubs, itDoes[itSubs[itIdx]])) <= MaxSubscribers
    /\ itCalled' = Append(itCalled, itSubs[itIdx])
    /\ itSubs' = AfterCallback(itSubs, itDoes[itSubs[itIdx]])
    /\ itIdx' = itIdx + 1
    /\ UNCHANGED <<itAtStart, itDoes, itpc>>

\* The iterator is past the end of the list: emit_event returns.
IterEnd ==
    /\ itpc = "loop"
    /\ itIdx > Len(itSubs)
    /\ itpc' = "done"
    /\ UNCHANGED <<itSubs, itIdx, itAtStart, itCalled, itDoes>>

(***************************************************************************)
(* process_emails_with_streaming called again under the session id of a    *)
(* run that has ended.  The coroutine has no await, so a call runs from    *)
(* its first statement to its return or raise without another call of the  *)
(* same thread in between.                                                 *)
(***************************************************************************)
VARIABLES
    runNo,            \* the number of the call under this session id
    receivedAtCall,   \* what the subscribers had received when it began
    reusedInactive    \* create_stream handed back a completed stream

rerunVars == <<runNo, receivedAtCall, reusedInactive>>

\* The first statement of cleanup_session is reached after a run has ended.
CleanupCall ==
    /\ sphase \in {"returned", "raised"}
    /\ cleanupPc = "idle"
    /\ cleanupPc' = "start"
    /\ UNCHANGED streamVars
    /\ UNCHANGED <<sphase, sidx, enable_streaming, enable_progress_tracking,
                   found, completeCarried, trackerRegistered, observed>>
    /\ UNCHANGED rerunVars

\* As SessionCallAgain, with a create_stream that puts the stream it finds
\* back into service.
SessionCallAgain_Reactivates ==
    /\ sphase \in {"returned", "raised"}
    /\ cleanupPc \in {"idle", "done"}
    /\ runNo < MaxRuns
    /\ runNo' = runNo + 1
    /\ receivedAtCall' = received
    /\ \E es \in BOOLEAN, ep \in BOOLEAN,
          f \in {"none", "one_kind", "both"} :
          /\ enable_streaming' = es
          /\ enable_progress_tracking' = ep
          /\ found' = f
          /\ reusedInactive' = (es /\ registered /\ ~is_active)
          /\ IF es
             THEN /\ is_active' = TRUE
                  /\ subscribers' = IF registered THEN subscribers ELSE <<>>
                  /\ last_heartbeat' =
                        IF registered THEN last_heartbeat ELSE 0
                  /\ registered' = TRUE
                  /\ completeReturned' = FALSE
                  /\ UNCHANGED <<faulty, clock, received, lastEmit>>
             ELSE UNCHANGED streamVars
          /\ trackerRegistered' = (trackerRegistered \/ ep)
    /\ sphase' = "try"
    /\ sidx' = 1
    /\ UNCHANGED <<completeCarried, cleanupPc, observed>>

\* Lines 47-71 of a further call with the same session_id: create_stream
\* returns the stream registered under the id as it is, or registers a new
\* StreamingService if there is none; create_tracker likewise.
SessionCallAgain ==
    /\ sphase \in {"returned", "raised"}
    /\ cleanupPc \in {"idle", "done"}
    /\ runNo < MaxRuns
    /\ runNo' = runNo + 1
    /\ receivedAtCall' = received
    /\ \E es \in BOOLEAN, ep \in BOOLEAN,
          f \in {"none", "one_kind", "both"} :
          /\ enable_streaming' = es
          /\ enable_progress_tracking' = ep
          /\ found' = f
          /\ reusedInactive' = (es /\ registered /\ ~is_active)
          /\ IF es /\ ~registered
             THEN /\ is_active' = TRUE
                  /\ subscribers' = <<>>
                  /\ last_heartbeat' = 0
                  /\ registered' = TRUE
                  /\ completeReturned' = FALSE
                  /\ UNCHANGED <<faulty, clock, received, lastEmit>>
             ELSE UNCHANGED streamVars
          /\ trackerRegistered' = (trackerRegistered \/ ep)
    /\ sphase' = "try"
    /\ sidx' = 1
    /\ UNCHANGED <<completeCarried, cleanupPc, observed>>

\* The groups of variables of the later sections.
newVars == <<aiRespVars, hybridCallVars, runVars, heartbeatVars, iterVars,
             rerunVars>>

\* The groups of variables of the managers, the scorer and the threads.
lateVars == <<mgrVars, scoreVars, concVars, newVars>>

\* The groups of variables added after the first three.
extVars == <<sessVars, filterVars, graphVars, trackerVars, lateVars>>

(***************************************************************************)
(* ======================  Specifications  ==============================  *)
(***************************************************************************)
vars == <<batchVars, streamVars, matchVars, extVars>>

\* batch_size=10 in process_matches_batch; the defaults of max_workers and
\* max_concurrent.
MatchBatchSize == 10
DefaultMaxWorkers == 4
DefaultMaxConcurrent == 10

\* The weights a deployment puts in Config.MATCHING_WEIGHTS, in percent.
HybridWeights ==
    [HYBRID_VECTOR |-> 30, HYBRID_AI |-> 40, HYBRID_BUSINESS |-> 30]

\* No batch run.
BatchIdle ==
    /\ bMode = "idle" /\ items = <<>> /\ raisesOn = {}
    /\ batch_size = 1 /\ max_workers = DefaultMaxWorkers
    /\ max_concurrent = DefaultMaxConcurrent /\ engineHasHF = FALSE
    /\ bpc = "done" /\ bi = 0 /\ tstate = <<>> /\ tres = <<>>
    /\ doneOrder = <<>> /\ batch_results = <<>> /\ results = <<>>
    /\ progress = <<>> /\ bRaised = FALSE

\* The entry of process_batch_sync / process_batch_async on n distinct items.
BatchStart(n) ==
    /\ items = [k \in 1..n |-> k]
    /\ bpc = "loop" /\ bi = 0
    /\ tstate = [k \in 1..n |-> "new"]
    /\ tres = [k \in 1..n |-> NotRun]
    /\ doneOrder = <<>> /\ batch_results = <<>> /\ results = <<>>
    /\ progress = <<>> /\ bRaised = FALSE

\* StreamingService.__init__, registered by StreamManager.create_stream.
StreamInit ==
    /\ is_active = TRUE /\ subscribers = <<>> /\ last_heartbeat = 0
    /\ registered = TRUE /\ clock = 0
    /\ received = [c \in Callbacks |-> <<>>]
    /\ completeReturned = FALSE /\ lastEmit = NoEmit

StreamIdle == StreamInit /\ faulty = {}

\* A GraphState that reaches a scoring stage.
MatchState(prefiltered) ==
    [prefiltered_items |-> prefiltered, match_results |-> <<>>,
     processing_log |-> <<>>, errors |-> <<>>]

MatchIdle ==
    /\ mstate = MatchState(<<>>) /\ use_vector_search = TRUE
    /\ matchingWeights = {} /\ configMaxRetries = max_retries
    /\ mpc = "done" /\ stageRun = "none" /\ attempt = 0 /\ llmCalls = 0
    /\ aiFellBack = FALSE /\ hybridRaised = FALSE

\* No session run and no cleanup.
SessIdle ==
    /\ sphase = "idle" /\ sidx = 1
    /\ enable_streaming = TRUE /\ enable_progress_tracking = TRUE
    /\ found = "none" /\ completeCarried = "none"
    /\ trackerRegistered = FALSE /\ cleanupPc = "idle"
    /\ observed = NoObservation

\* No filter call.
FilterIdle ==
    /\ hfCandidates = <<>> /\ hfRequirements = Requirements({}, {}, {}, <<>>)
    /\ hfFiltered = <<>> /\ hfRefiltered = <<>> /\ hfDone = TRUE

PrefilterIdle ==
    /\ pstate = PrefilterState(0, "") /\ pUseVector = TRUE /\ ppc = "idle"

GraphIdle ==
    /\ gstate = [use_advanced_matching |-> {}, use_hybrid_matching |-> {},
                 match_type |-> {}, errors |-> <<>>]
    /\ gnode = "idle" /\ gtrace = <<>>

TrackerIdle ==
    /\ tracker = NewTracker(1) /\ tcallbacks = <<>> /\ tnotified = <<>>
    /\ tlast = [op |-> "none", stage |-> "none", value |-> 0]
    /\ tcalls = MaxTrackerCalls

\* Empty registries.
ManagerStart ==
    /\ _streams = [s \in SessionIds |-> 0]
    /\ trackers = [s \in SessionIds |-> 0]
    /\ trackerOf = [i \in 1..MaxInstances |-> NewTracker(8)]
    /\ inactive = {} /\ held = {} /\ ncreated = 0 /\ mcallbacks = {}
    /\ mlast = [op |-> "none", session_id |-> "none", callback |-> {}]

ManagerIdle == ManagerStart /\ mcalls = MaxManagerCalls

\* No scorer call.
ScoreIdle ==
    /\ scCandidate = [skills |-> {}, experience_years |-> {},
                      education |-> "", certificates |-> ""]
    /\ scProject = [tech_requirements |-> [keywords |-> {}, years |-> {}],
                    work_style |-> ""]
    /\ scResult = [skill_score |-> 0, exp_score |-> 0, other_score |-> 0,
                   total_score |-> 0]
    /\ scDone = TRUE

\* No thread in the stream.
ConcIdle ==
    /\ cIsActive = TRUE /\ cReceived = [c \in Callbacks |-> <<>>]
    /\ cStack = [t \in Threads |-> <<>>] /\ cMainPc = "done"
    /\ cEmitsLeft = 0 /\ cReentrant = {}

AiResponseIdle == llmResponse = NoResponse

HybridCallIdle == aiCalls = NoCalls

RunIdle ==
    /\ rphase = "idle" /\ ridx = 0 /\ rEmails = 0 /\ rCandidates = 0
    /\ rProjects = 0 /\ rtrace = <<>>

HeartbeatIdle == hbpc = "none"

IterIdle ==
    /\ itSubs = <<>> /\ itIdx = 0 /\ itAtStart = <<>> /\ itCalled = <<>>
    /\ itDoes = [c \in IterCallbacks |->
                    [op |-> "nothing", target |-> "none"]]
    /\ itpc = "none"

\* The first call under the session id.
RerunIdle ==
    /\ runNo = 1 /\ receivedAtCall = [c \in Callbacks |-> <<>>]
    /\ reusedInactive = FALSE

NewIdle ==
    /\ AiResponseIdle /\ HybridCallIdle /\ RunIdle /\ HeartbeatIdle
    /\ IterIdle /\ RerunIdle

LateIdle == ManagerIdle /\ ScoreIdle /\ ConcIdle /\ NewIdle

ExtIdle ==
    SessIdle /\ FilterIdle /\ PrefilterIdle /\ GraphIdle /\ TrackerIdle
        /\ LateIdle

\* ---- process_batch_sync and process_batch_async
InitBatch ==
    /\ bMode \in {"sync", "async"}
    /\ \E n \in 0..MaxItems : BatchStart(n)
    /\ raisesOn \in SUBSET {items[k] : k \in DOMAIN items}
    /\ batch_size \in 1..MaxBatchSize
    /\ IF bMode = "sync"
       THEN max_workers \in 1..MaxWorkers
            /\ max_concurrent = DefaultMaxConcurrent
       ELSE max_workers = DefaultMaxWorkers
            /\ max_concurrent \in 1..MaxConcurrent
    /\ engineHasHF = FALSE
    /\ StreamIdle /\ MatchIdle /\ ExtIdle

BatchOnly == UNCHANGED <<streamVars, matchVars, extVars>>

NextBatch ==
    \/ SyncSubmit /\ BatchOnly
    \/ WorkerStart /\ BatchOnly
    \/ \E k \in 1..total_items : WorkerFinish(k) /\ BatchOnly
    \/ \E k \in 1..total_items : SyncCollect(k) /\ BatchOnly
    \/ SyncBatchDone /\ BatchOnly
    \/ AsyncCreateTasks /\ BatchOnly
    \/ AsyncAcquire /\ BatchOnly
    \/ \E k \in 1..total_items : AsyncFinish(k) /\ BatchOnly
    \/ AsyncGatherDone /\ BatchOnly
    \/ BatchReturn /\ BatchOnly

SpecBatch == InitBatch /\ [][NextBatch]_vars

\* ---- MatchingBatchProcessor.process_matches_batch
InitMatches ==
    /\ bMode = "matches"
    /\ \E n \in 0..MaxRequests : BatchStart(n)
    /\ raisesOn = {}
    /\ batch_size = MatchBatchSize
    /\ max_workers \in 1..MaxWorkers
    /\ max_concurrent = DefaultMaxConcurrent
    /\ engineHasHF \in BOOLEAN
    /\ StreamIdle /\ MatchIdle /\ ExtIdle

NextMatches ==
    \/ SyncSubmit /\ BatchOnly
    \/ WorkerStart /\ BatchOnly
    \/ \E k \in 1..total_items : WorkerFinish(k) /\ BatchOnly
    \/ \E k \in 1..total_items : SyncCollect(k) /\ BatchOnly
    \/ SyncBatchDone /\ BatchOnly
    \/ BatchReturn /\ BatchOnly

SpecMatches == InitMatches /\ [][NextMatches]_vars

\* ---- StreamingService
InitStream ==
    /\ StreamInit
    /\ faulty \in SUBSET Callbacks
    /\ BatchIdle /\ MatchIdle /\ ExtIdle

StreamOnly == UNCHANGED <<batchVars, matchVars, extVars>>

NextStream ==
    \/ \E cb \in Callbacks : subscribe(cb) /\ StreamOnly
    \/ \E cb \in Callbacks : unsubscribe(cb) /\ StreamOnly
    \/ emit_progress /\ StreamOnly
    \/ emit_status /\ StreamOnly
    \/ emit_error /\ StreamOnly
    \/ emit_result /\ StreamOnly
    \/ emit_heartbeat /\ StreamOnly
    \/ complete /\ StreamOnly
    \/ remove_stream /\ StreamOnly

SpecStream == InitStream /\ [][NextStream]_vars

\* ---- MatchingEngine.ai_matching
MatchStart(prefiltered) ==
    /\ mstate = MatchState(prefiltered)
    /\ mpc = "start" /\ stageRun = "none" /\ attempt = 0 /\ llmCalls = 0
    /\ aiFellBack = FALSE /\ hybridRaised = FALSE

InitAi ==
    /\ \E p \in SeqsUpTo(ItemKinds, MaxPrefiltered) : MatchStart(p)
    /\ use_vector_search = TRUE
    /\ matchingWeights = {}
    /\ configMaxRetries \in 1..MaxConfigRetries
    /\ BatchIdle /\ StreamIdle /\ ExtIdle

MatchOnly == UNCHANGED <<batchVars, streamVars, extVars>>

NextAi ==
    \/ StartAiMatching /\ MatchOnly
    \/ AiAttempt /\ MatchOnly

SpecAi == InitAi /\ [][NextAi]_vars

\* ---- MatchingEngine.hybrid_matching and vector_similarity_matching
InitHybrid ==
    /\ \E p \in SeqsUpTo(ItemKinds, MaxPrefiltered) : MatchStart(p)
    /\ use_vector_search \in BOOLEAN
    /\ matchingWeights \in {{}, {HybridWeights}}
    /\ configMaxRetries = max_retries
    /\ BatchIdle /\ StreamIdle /\ ExtIdle

NextHybrid ==
    \/ RunHybridMatching /\ MatchOnly
    \/ RunVectorMatching /\ MatchOnly

SpecHybrid == InitHybrid /\ [][NextHybrid]_vars

\* ---- The four scoring strategies on items of every similarity
InitScoring ==
    /\ \E p \in SeqsUpTo(ScoringItemKinds, MaxScoringItems) : MatchStart(p)
    /\ use_vector_search \in BOOLEAN
    /\ matchingWeights \in {{}, {HybridWeights}}
    /\ configMaxRetries = max_retries
    /\ BatchIdle /\ StreamIdle /\ ExtIdle

NextScoring ==
    \/ StartAiMatching /\ MatchOnly
    \/ AiAttempt /\ MatchOnly
    \/ RunHybridMatching /\ MatchOnly
    \/ RunVectorMatching /\ MatchOnly

SpecScoring == InitScoring /\ [][NextScoring]_vars

\* ---- IntegratedProcessingService.process_emails_with_streaming
\* create_stream and create_tracker have run; the subscriber cb1 is there
\* from the start, cb2 comes and goes from another thread.
InitSession ==
    /\ enable_streaming \in BOOLEAN
    /\ enable_progress_tracking \in BOOLEAN
    /\ found \in {"none", "one_kind", "both"}
    /\ is_active = TRUE /\ subscribers = <<"cb1">> /\ last_heartbeat = 0
    /\ registered = enable_streaming /\ clock = 0
    /\ received = [c \in Callbacks |-> <<>>]
    /\ completeReturned = FALSE /\ lastEmit = NoEmit
    /\ faulty \in SUBSET Callbacks
    /\ sphase = "try" /\ sidx = 1 /\ completeCarried = "none"
    /\ trackerRegistered = enable_progress_tracking
    /\ cleanupPc = "idle" /\ observed = NoObservation
    /\ BatchIdle /\ MatchIdle /\ FilterIdle /\ PrefilterIdle /\ GraphIdle
    /\ TrackerIdle /\ LateIdle

SessOnly ==
    UNCHANGED <<batchVars, matchVars, filterVars, graphVars, trackerVars,
                lateVars>>

\* callback in self.subscribers
IsSubscribed(cb) == \E k \in 1..Len(subscribers) : subscribers[k] = cb

NextSession ==
    \/ SessionTryStep /\ SessOnly
    \/ SessionTryRaise /\ SessOnly
    \/ SessionReturn /\ SessOnly
    \/ SessionExceptStep /\ SessOnly
    \/ SessionReraise /\ SessOnly
    \/ (clock < MaxLateCalls /\ ~IsSubscribed("cb2") /\ subscribe("cb2"))
          /\ StreamOnly
    \/ (clock < MaxLateCalls /\ IsSubscribed("cb2") /\ unsubscribe("cb2"))
          /\ StreamOnly

SpecSession == InitSession /\ [][NextSession]_vars

\* ---- IntegratedProcessingService.cleanup_session
InitCleanup ==
    /\ is_active = TRUE /\ subscribers = <<"cb1">> /\ last_heartbeat = 0
    /\ registered = TRUE /\ clock = 0
    /\ received = [c \in Callbacks |-> <<>>]
    /\ completeReturned = FALSE /\ lastEmit = NoEmit
    /\ faulty \in SUBSET Callbacks
    /\ sphase = "idle" /\ sidx = 1
    /\ enable_streaming = TRUE /\ enable_progress_tracking = TRUE
    /\ found = "none" /\ completeCarried = "none"
    /\ trackerRegistered = TRUE
    /\ cleanupPc = "start" /\ observed = NoObservation
    /\ BatchIdle /\ MatchIdle /\ FilterIdle /\ PrefilterIdle /\ GraphIdle
    /\ TrackerIdle /\ LateIdle

NextCleanup ==
    \/ CleanupRemoveStream /\ SessOnly
    \/ CleanupRemoveTracker /\ SessOnly
    \/ ObserveRegistries /\ SessOnly
    \/ emit_progress /\ StreamOnly
    \/ emit_status /\ StreamOnly

SpecCleanup == InitCleanup /\ [][NextCleanup]_vars

\* ---- BusinessRulesScorer.apply_hard_filters
InitFilter ==
    /\ hfCandidates \in SeqsUpTo(CandidateKinds, MaxCandidates)
    /\ hfRequirements \in RequirementKinds
    /\ hfFiltered = <<>> /\ hfRefiltered = <<>> /\ hfDone = FALSE
    /\ PrefilterIdle /\ GraphIdle
    /\ BatchIdle /\ StreamIdle /\ MatchIdle /\ SessIdle /\ TrackerIdle
    /\ LateIdle

FilterOnly ==
    UNCHANGED <<batchVars, streamVars, matchVars, sessVars, graphVars,
                trackerVars, lateVars>>

NextFilter == ApplyHardFilters /\ FilterOnly

SpecFilter == InitFilter /\ [][NextFilter]_vars

\* ---- MatchingEngine.vector_prefilter_candidates
InitPrefilter ==
    /\ \E n \in 0..MaxHardFiltered, q \in {"", "python"} :
          pstate = PrefilterState(n, q)
    /\ pUseVector \in BOOLEAN
    /\ ppc = "start"
    /\ FilterIdle /\ GraphIdle
    /\ BatchIdle /\ StreamIdle /\ MatchIdle /\ SessIdle /\ TrackerIdle
    /\ LateIdle

NextPrefilter == RunVectorPrefilter /\ FilterOnly

SpecPrefilter == InitPrefilter /\ [][NextPrefilter]_vars

\* ---- build_matching_graph
InitGraph ==
    /\ gstate \in GraphStateKinds
    /\ gnode = "entry" /\ gtrace = <<>>
    /\ FilterIdle /\ PrefilterIdle
    /\ BatchIdle /\ StreamIdle /\ MatchIdle /\ SessIdle /\ TrackerIdle
    /\ LateIdle

GraphOnly ==
    UNCHANGED <<batchVars, streamVars, matchVars, sessVars, filterVars,
                trackerVars, lateVars>>

NextGraph ==
    \/ GraphEnter /\ GraphOnly
    \/ GraphStep /\ GraphOnly

SpecGraph == InitGraph /\ [][NextGraph]_vars

\* ---- ProgressTracker
InitTracker ==
    /\ \E total_stages \in 1..2 : tracker = NewTracker(total_stages)
    /\ tcallbacks \in {<<>>, <<"cb1">>}
    /\ tnotified = <<>>
    /\ tlast = [op |-> "none", stage |-> "none", value |-> 0] /\ tcalls = 0
    /\ FilterIdle /\ PrefilterIdle /\ GraphIdle
    /\ BatchIdle /\ StreamIdle /\ MatchIdle /\ SessIdle
    /\ LateIdle

TrackerOnly ==
    UNCHANGED <<batchVars, streamVars, matchVars, sessVars, filterVars,
                graphVars, lateVars>>

NextTracker ==
    \/ StartStage /\ TrackerOnly
    \/ UpdateProgress /\ TrackerOnly
    \/ CompleteStage /\ TrackerOnly
    \/ CompleteSession /\ TrackerOnly
    \/ SetError /\ TrackerOnly

SpecTracker == InitTracker /\ [][NextTracker]_vars

\* ---- StreamManager and ProgressManager
\* The groups every later specification leaves alone.
EarlyIdle ==
    /\ BatchIdle /\ StreamIdle /\ MatchIdle /\ SessIdle /\ FilterIdle
    /\ PrefilterIdle /\ GraphIdle /\ TrackerIdle

earlyVars == <<batchVars, streamVars, matchVars, sessVars, filterVars,
               graphVars, trackerVars>>

InitManager ==
    /\ ManagerStart /\ mcalls = 0
    /\ EarlyIdle /\ ScoreIdle /\ ConcIdle /\ NewIdle

ManagerOnly == UNCHANGED <<earlyVars, scoreVars, concVars, newVars>>

NextManager ==
    \/ CreateStream /\ ManagerOnly
    \/ CreateTracker /\ ManagerOnly
    \/ GetInstance /\ ManagerOnly
    \/ RemoveStream /\ ManagerOnly
    \/ RemoveTracker /\ ManagerOnly
    \/ CreateBatchCallback /\ ManagerOnly
    \/ CreateAsyncProgressCallback /\ ManagerOnly
    \/ InvokeCallback /\ ManagerOnly

SpecManager == InitManager /\ [][NextManager]_vars

\* ---- BusinessRulesScorer.calculate_business_score
InitScore ==
    /\ scCandidate \in ScoreCandidates
    /\ scProject \in ScoreProjects
    /\ scResult = [skill_score |-> 0, exp_score |-> 0, other_score |-> 0,
                   total_score |-> 0]
    /\ scDone = FALSE
    /\ EarlyIdle /\ ManagerIdle /\ ConcIdle /\ NewIdle

ScoreOnly == UNCHANGED <<earlyVars, mgrVars, concVars, newVars>>

NextScore == CalculateBusinessScore /\ ScoreOnly

SpecScore == InitScore /\ [][NextScore]_vars

\* ---- StreamingService, two threads
InitThreads ==
    /\ cIsActive = TRUE /\ cReceived = [c \in Callbacks |-> <<>>]
    /\ cStack = [t \in Threads |-> <<>>] /\ cMainPc = "call"
    /\ cEmitsLeft \in 0..MaxEmits
    /\ cReentrant \in SUBSET Callbacks
    /\ EarlyIdle /\ ManagerIdle /\ ScoreIdle /\ NewIdle

ThreadsOnly == UNCHANGED <<earlyVars, mgrVars, scoreVars, newVars>>

NextThreads ==
    \/ CallComplete /\ ThreadsOnly
    \/ CallEmit /\ ThreadsOnly
    \/ \E t \in Threads : EmitCheckActive(t) /\ ThreadsOnly
    \/ \E t \in Threads : EmitCallback(t) /\ ThreadsOnly
    \/ \E t \in Threads : EmitReturn(t) /\ ThreadsOnly
    \/ CompleteSetInactive /\ ThreadsOnly

SpecThreads == InitThreads /\ [][NextThreads]_vars

\* ---- The groups the specifications below leave alone.
oldVars == <<earlyVars, mgrVars, scoreVars, concVars>>

OldIdle == EarlyIdle /\ ManagerIdle /\ ScoreIdle /\ ConcIdle

\* ---- MatchingEngine.ai_matching, the responses on record
InitAiResponse ==
    /\ \E p \in SeqsUpTo(ItemKinds, MaxPrefiltered) : MatchStart(p)
    /\ use_vector_search = TRUE
    /\ matchingWeights = {}
    /\ configMaxRetries = max_retries
    /\ llmResponse = NoResponse
    /\ BatchIdle /\ StreamIdle /\ SessIdle /\ FilterIdle /\ PrefilterIdle
    /\ GraphIdle /\ TrackerIdle /\ ManagerIdle /\ ScoreIdle /\ ConcIdle
    /\ HybridCallIdle /\ RunIdle /\ HeartbeatIdle /\ IterIdle
    /\ RerunIdle

AiResponseOnly ==
    UNCHANGED <<batchVars, streamVars, sessVars, filterVars, graphVars,
                trackerVars, mgrVars, scoreVars, concVars, hybridCallVars,
                runVars, heartbeatVars, iterVars, rerunVars>>

NextAiResponse ==
    \/ StartAiMatching /\ UNCHANGED llmResponse /\ AiResponseOnly
    \/ AiAttemptObserved /\ AiResponseOnly

SpecAiResponse == InitAiResponse /\ [][NextAiResponse]_vars

\* ---- MatchingEngine.hybrid_matching, the relevance calls on record
InitHybridCalls ==
    /\ \E p \in SeqsUpTo(ItemKinds, MaxCalledItems) : MatchStart(p)
    /\ use_vector_search \in BOOLEAN
    /\ matchingWeights \in {{}, {HybridWeights}}
    /\ configMaxRetries = max_retries
    /\ aiCalls = NoCalls
    /\ BatchIdle /\ StreamIdle /\ SessIdle /\ FilterIdle /\ PrefilterIdle
    /\ GraphIdle /\ TrackerIdle /\ ManagerIdle /\ ScoreIdle /\ ConcIdle
    /\ AiResponseIdle /\ RunIdle /\ HeartbeatIdle /\ IterIdle
    /\ RerunIdle

HybridCallsOnly ==
    UNCHANGED <<batchVars, streamVars, sessVars, filterVars, graphVars,
                trackerVars, mgrVars, scoreVars, concVars, aiRespVars,
                runVars, heartbeatVars, iterVars, rerunVars>>

NextHybridCalls == RunHybridObserved /\ HybridCallsOnly

SpecHybridCalls == InitHybridCalls /\ [][NextHybridCalls]_vars

\* ---- Vector-only and hybrid scoring on lists longer than the cap
InitTopFive ==
    /\ \E p \in SeqsUpTo({SheetItem, PointItem}, MaxScored) : MatchStart(p)
    /\ use_vector_search \in BOOLEAN
    /\ matchingWeights \in {{}, {HybridWeights}}
    /\ configMaxRetries = max_retries
    /\ BatchIdle /\ StreamIdle /\ ExtIdle

SpecTopFive == InitTopFive /\ [][NextHybrid]_vars

\* ---- process_emails_with_streaming and its tracker
InitRun ==
    /\ tracker = RunTracker
    /\ tcallbacks \in {<<>>, <<"progress_to_stream">>}
    /\ tnotified = <<>>
    /\ tlast = [op |-> "none", stage |-> "none", value |-> 0]
    /\ tcalls = 0
    /\ rphase = "try" /\ ridx = 1 /\ rtrace = <<>>
    /\ rEmails \in 0..MaxEmails
    /\ \E c \in 0..rEmails, p \in 0..rEmails :
          c + p <= rEmails /\ rCandidates = c /\ rProjects = p
    /\ BatchIdle /\ StreamIdle /\ MatchIdle /\ SessIdle /\ FilterIdle
    /\ PrefilterIdle /\ GraphIdle
    /\ ManagerIdle /\ ScoreIdle /\ ConcIdle
    /\ AiResponseIdle /\ HybridCallIdle /\ HeartbeatIdle /\ IterIdle
    /\ RerunIdle

RunOnly ==
    UNCHANGED <<batchVars, streamVars, matchVars, sessVars, filterVars,
                graphVars, mgrVars, scoreVars, concVars, aiRespVars,
                hybridCallVars, heartbeatVars, iterVars, rerunVars>>

NextRun ==
    \/ RunTryStep /\ RunOnly
    \/ RunTryRaise /\ RunOnly
    \/ RunReturn /\ RunOnly
    \/ RunExcept /\ RunOnly

SpecRun == InitRun /\ [][NextRun]_vars

\* ---- StreamingService.start_heartbeat_loop
InitHeartbeat ==
    /\ StreamInit /\ faulty = {}
    /\ hbpc = "start"
    /\ BatchIdle /\ MatchIdle /\ SessIdle /\ FilterIdle /\ PrefilterIdle
    /\ GraphIdle /\ TrackerIdle
    /\ ManagerIdle /\ ScoreIdle /\ ConcIdle
    /\ AiResponseIdle /\ HybridCallIdle /\ RunIdle /\ IterIdle
    /\ RerunIdle

HeartbeatOnly ==
    UNCHANGED <<batchVars, matchVars, sessVars, filterVars, graphVars,
                trackerVars, mgrVars, scoreVars, concVars, aiRespVars,
                hybridCallVars, runVars, iterVars, rerunVars>>

NextHeartbeat ==
    \/ HeartbeatBeat /\ HeartbeatOnly
    \/ HeartbeatExit /\ HeartbeatOnly
    \/ \E cb \in Callbacks :
          (~IsSubscribed(cb) /\ subscribe(cb)) /\ UNCHANGED hbpc
              /\ HeartbeatOnly
    \/ emit_progress /\ UNCHANGED hbpc /\ HeartbeatOnly
    \/ complete /\ UNCHANGED hbpc /\ HeartbeatOnly
    \/ remove_stream /\ UNCHANGED hbpc /\ HeartbeatOnly

SpecHeartbeat == InitHeartbeat /\ [][NextHeartbeat]_vars

\* asyncio.sleep returns after its interval and the event loop runs the
\* coroutine again.
SpecHeartbeatLive ==
    /\ SpecHeartbeat
    /\ WF_vars(HeartbeatExit /\ HeartbeatOnly)

\* ---- emit_event, the list changing under the loop
\* The lists of distinct callbacks.
DistinctLists ==
    {l \in SeqsUpTo(IterCallbacks, 3) :
        \A i, j \in 1..Len(l) : i # j => l[i] # l[j]}

InitIter ==
    /\ itSubs \in DistinctLists /\ itSubs # <<>>
    /\ itAtStart = itSubs
    /\ itDoes \in [IterCallbacks -> CallbackDoes]
    /\ itIdx = 0 /\ itCalled = <<>> /\ itpc = "start"
    /\ OldIdle
    /\ AiResponseIdle /\ HybridCallIdle /\ RunIdle /\ HeartbeatIdle
    /\ RerunIdle

IterOnly ==
    UNCHANGED <<oldVars, aiRespVars, hybridCallVars, runVars, heartbeatVars,
                rerunVars>>

NextIter ==
    \/ IterStart /\ IterOnly
    \/ IterCall /\ IterOnly
    \/ IterEnd /\ IterOnly

SpecIter == InitIter /\ [][NextIter]_vars

\* ---- process_emails_with_streaming, called again under the same id
RerunOnly ==
    UNCHANGED <<batchVars, matchVars, filterVars, graphVars, trackerVars,
                mgrVars, scoreVars, concVars, aiRespVars, hybridCallVars,
                runVars, heartbeatVars, iterVars>>

\* A client of a later call looks the stream of the session id up
\* (get_stream) when the call has set it up, and subscribes to it or leaves
\* it again before the try block begins.
LaterClient ==
    /\ runNo > 1 /\ sphase = "try" /\ sidx = 1
    /\ registered
    /\ clock < MaxLateCalls

NextRerun ==
    \/ SessionTryStep /\ UNCHANGED rerunVars /\ RerunOnly
    \/ SessionTryRaise /\ UNCHANGED rerunVars /\ RerunOnly
    \/ SessionReturn /\ UNCHANGED rerunVars /\ RerunOnly
    \/ SessionExceptStep /\ UNCHANGED rerunVars /\ RerunOnly
    \/ SessionReraise /\ UNCHANGED rerunVars /\ RerunOnly
    \/ SessionCallAgain /\ RerunOnly
    \/ CleanupCall /\ RerunOnly
    \/ CleanupRemoveStream /\ UNCHANGED rerunVars /\ RerunOnly
    \/ CleanupRemoveTracker /\ UNCHANGED rerunVars /\ RerunOnly
    \/ (LaterClient /\ ~IsSubscribed("cb2") /\ subscribe("cb2"))
          /\ StreamOnly
    \/ (LaterClient /\ IsSubscribed("cb2") /\ unsubscribe("cb2"))
          /\ StreamOnly

\* The first call runs with its stream, which has the subscriber cb1.
InitRerun ==
    /\ InitSession
    /\ enable_streaming
    /\ found # "one_kind"
    /\ faulty \subseteq {"cb1"}

SpecRerun == InitRerun /\ [][NextRerun]_vars

(***************************************************************************)
(* ======================  Properties  ==================================  *)
(***************************************************************************)
\* The outcome of item it: the function's return value, or the null marker
\* if it raised.
OutcomeOf(it) ==
    IF it \in raisesOn THEN None ELSE Returned(it * 10)

\* C1: process_batch_sync returns a list aligned with its input:
\* results[i] is the outcome of items[i] whatever the order in which the
\* worker-pool tasks of a batch complete.
C1_SyncIndexAligned ==
    (bMode = "sync" /\ bpc = "done") =>
        /\ Len(results) = Len(items)
        /\ \A i \in 1..Len(items) : results[i] = OutcomeOf(items[i])

\* C3: when the per-item function raises on an item, neither entry point
\* raises, that item's result is the null marker, and every other item of
\* the run still has its own result.
C3_FailureIsolated ==
    (bMode \in {"sync", "async"} /\ bpc = "done" /\ raisesOn # {}) =>
        /\ ~bRaised
        /\ Len(results) = Len(items)
        /\ \A i \in 1..Len(items) :
              /\ tstate[i] = "collected"
              /\ items[i] \in raisesOn => results[i] = None
              /\ items[i] \notin raisesOn => results[i] = Returned(items[i] * 10)

\* C4: process_batch_sync and process_batch_async return a list as long as
\* the input, for every input (the empty list too), batch size and
\* combination of per-item failures.
C4_LengthPreserved ==
    (bMode \in {"sync", "async"} /\ bpc = "done") =>
        Len(results) = Len(items)

\* C4 witness: a finished run over several batches in which an item failed.
C4_Witness ==
    /\ bMode = "sync" /\ bpc = "done"
    /\ Len(items) = MaxItems /\ batch_size < Len(items)
    /\ raisesOn # {} /\ raisesOn # {items[k] : k \in DOMAIN items}
    /\ Len(results) = Len(items)

\* C5: process_batch_async returns a list aligned with its input under every
\* interleaving of the tasks: at any moment the results collected so far are
\* the outcomes of the first items, and at the end of all of them.
C5_AsyncIndexAligned ==
    bMode = "async" =>
        /\ Len(results) <= Len(items)
        /\ \A i \in 1..Len(results) : results[i] = OutcomeOf(items[i])
        /\ bpc = "done" => Len(results) = Len(items)

\* C5 witness: a finished async run whose last batch completed out of
\* input order, one of its items having raised.
C5_Witness ==
    /\ bMode = "async" /\ bpc = "done"
    /\ raisesOn # {}
    /\ \E a, b \in 1..Len(doneOrder) : a < b /\ doneOrder[a] > doneOrder[b]
    /\ \A i \in 1..Len(items) : results[i] = OutcomeOf(items[i])

\* C10: process_matches_batch returns exactly one entry per request, with
\* that request's query_id and either success with no error or failure with
\* a non-empty errors list; no entry is the bare null marker.
C10_OneEntryPerRequest ==
    (bMode = "matches" /\ bpc = "done") =>
        /\ Len(results) = Len(items)
        /\ \A j \in 1..Len(results) :
              /\ results[j] # None
              /\ results[j].tag = "value"
              /\ results[j].v.success <=> (results[j].v.errors = <<>>)
        /\ \A k \in 1..Len(items) :
              Cardinality({j \in 1..Len(results) :
                              /\ results[j].tag = "value"
                              /\ results[j].v.query_id = items[k]}) = 1

\* C10 witness: a finished run of two requests in which a stage raised for
\* one request and the other succeeded with matches.
C10_Witness ==
    /\ bMode = "matches" /\ bpc = "done" /\ Len(results) = 2
    /\ \E j \in 1..2 :
          /\ results[j].tag = "value"
          /\ results[j].v.errors = <<"exception">>
    /\ \E j \in 1..2 :
          /\ results[j].tag = "value"
          /\ results[j].v.success /\ results[j].v.matches # <<>>

\* The last element of a non-empty list.
Last(l) == l[Len(l)]

\* In every subscriber's list of received events a COMPLETE event is
\* followed by nothing but further deliveries of that same event.
CompleteIsLast ==
    \A c \in Callbacks :
        \A i \in 1..Len(received[c]) :
            received[c][i].event_type = COMPLETE =>
                \A j \in i..Len(received[c]) : received[c][j] = received[c][i]

\* C2: with calls made one after another, once complete() has returned no
\* later emit delivers anything to any subscriber, and each subscriber
\* receives at most one COMPLETE event, which is the last event it receives.
C2_NothingAfterComplete ==
    /\ []CompleteIsLast
    /\ [][completeReturned => received' = received]_vars

\* C2 witness: a subscriber received an event and then COMPLETE, complete()
\* has returned, and an emit made after it on the still subscribed callback
\* delivered nothing.
C2_Witness ==
    /\ completeReturned
    /\ lastEmit.event_type \notin {"none", COMPLETE}
    /\ ~lastEmit.active
    /\ \E c \in Callbacks :
          /\ \E k \in 1..Len(subscribers) : subscribers[k] = c
          /\ Len(received[c]) = 2
          /\ received[c][1].event_type = PROGRESS
          /\ received[c][2].event_type = COMPLETE

\* C9: emit_event calls the subscribers in subscription order; a callback
\* that raises neither keeps the later subscribers from receiving the event
\* nor lets the exception reach the caller of the emit.
C9_AllNotifiedInOrder ==
    lastEmit.active =>
        /\ lastEmit.called = lastEmit.subs
        /\ ~lastEmit.propagated
        /\ \A k \in 1..Len(lastEmit.subs) :
              /\ received[lastEmit.subs[k]] # <<>>
              /\ Last(received[lastEmit.subs[k]]) =
                     StreamEvent(lastEmit.event_type, lastEmit.timestamp)

\* C9 witness: an emit to two subscribers of which the first one raised.
C9_Witness ==
    /\ lastEmit.active
    /\ Len(lastEmit.subs) = 2
    /\ lastEmit.subs[1] \in faulty
    /\ lastEmit.subs[2] \notin faulty
    /\ received[lastEmit.subs[2]] # <<>>

\* C6: ai_matching on a non-empty prefiltered list never calls the relevance
\* service more often than the configured maximum (Config.MAX_RETRIES), and
\* it has called it exactly that many times when it falls back.
C6_RetriesAsConfigured ==
    /\ llmCalls <= configMaxRetries
    /\ aiFellBack => llmCalls = configMaxRetries

\* C7: when every attempt of ai_matching failed on n >= 1 prefiltered items,
\* match_results is the fallback ranking -- the first min(3, n) items in
\* their order, scored 60, 55, 50 -- and the failure is in errors.
C7_FallbackRanking ==
    (mpc = "done" /\ aiFellBack) =>
        LET p == mstate.prefiltered_items
            r == mstate.match_results
        IN  /\ Len(r) = Min(3, Len(p))
            /\ \A j \in 1..Len(r) :
                  /\ r[j].score = <<60, 55, 50>>[j]
                  /\ r[j].reason = "fallback"
                  /\ p[j].id # {} => r[j].id \in p[j].id
                  /\ p[j].name # {} => r[j].name \in p[j].name
                  /\ j > 1 => r[j].score < r[j - 1].score
            /\ mstate.errors = <<"ai_matching_failed">>

\* C7 witness: the fallback ranking built from four prefiltered items.
C7_Witness ==
    /\ mpc = "done" /\ aiFellBack
    /\ Len(mstate.prefiltered_items) = 4
    /\ Len(mstate.match_results) = 3
    /\ llmCalls = max_retries

\* The vector-only ranking of a prefiltered list.
VectorRanking(p) ==
    SortByScoreDesc([j \in 1..Len(Take(p, 5)) |-> VectorMatchOf(p[j])])

\* C8: when hybrid_matching hits an exception the stage records an error and
\* its match_results is the vector-only ranking of the same prefiltered
\* items, whatever the engine's vector-search flag is.
C8_DegradesToVectorRanking ==
    (mpc = "done" /\ stageRun = "hybrid_matching" /\ hybridRaised) =>
        /\ mstate.errors # <<>>
        /\ mstate.match_results = VectorRanking(mstate.prefiltered_items)

\* The number of COMPLETE events a callback has received.
CountComplete(c) ==
    Cardinality({i \in 1..Len(received[c]) :
                    received[c][i].event_type = COMPLETE})

\* C11: a run of process_emails_with_streaming with streaming enabled,
\* ended by return or by an exception, has sent exactly one COMPLETE event,
\* the last event of the subscriber that was there throughout; no
\* subscriber gets two or gets anything after it; a run that raised sent
\* ERROR right before a COMPLETE carrying the error, and a run is never
\* completed with a result once its except branch was entered.
C11_EndsWithOneComplete ==
    /\ (enable_streaming /\ sphase \in {"returned", "raised"}) =>
          LET r == received["cb1"]
          IN  /\ r # <<>>
              /\ Last(r).event_type = COMPLETE
              /\ CountComplete("cb1") = 1
              /\ sphase = "returned" => completeCarried = "result"
              /\ sphase = "raised" =>
                    /\ completeCarried = "error"
                    /\ Len(r) >= 2
                    /\ r[Len(r) - 1].event_type = ERROR
    /\ sphase \in {"try", "except", "returned", "raised"} =>
          /\ \A c \in Callbacks : CountComplete(c) <= 1
          /\ CompleteIsLast
          /\ sphase \in {"except", "raised"} => completeCarried # "result"

\* C11 witness: a run with progress tracking that raised after it had sent
\* events, seen by cb1 throughout and by cb2 from some point on.
C11_Witness ==
    /\ enable_streaming /\ enable_progress_tracking /\ sphase = "raised"
    /\ Len(received["cb1"]) >= 4
    /\ received["cb1"][Len(received["cb1"]) - 1].event_type = ERROR
    /\ Last(received["cb1"]).event_type = COMPLETE
    /\ received["cb2"] # <<>>
    /\ Len(received["cb2"]) < Len(received["cb1"])

\* C12: cleanup_session removes the tracker and the stream as one step: no
\* thread sees one registry without the session while the other still
\* holds it; once it has returned neither holds the session and no event
\* of the session is delivered.
C12_CleanupAtomic ==
    /\ [](observed.seen => (observed.stream <=> observed.tracker))
    /\ [](cleanupPc = "done" => (~registered /\ ~trackerRegistered))
    /\ [][cleanupPc = "done" => received' = received]_vars

\* C13: every MatchResult in match_results, whichever scoring strategy put
\* it there, has an integer score between 0 and 100.
C13_ScoreInRange ==
    \A j \in 1..Len(mstate.match_results) :
        mstate.match_results[j].score \in 0..100

\* C13 witness: results were produced although the relevance service also
\* returned an entry that MatchResult rejects, or although the hybrid score
\* of some item was out of range.
C13_Witness ==
    /\ mpc = "done" /\ stageRun = "ai_matching"
    /\ mstate.match_results # <<>>
    /\ mstate.errors = <<"match_format_error">>

\* SelectSeq of the candidates that pass the hard filters.
PassingOf(candidates, requirements) ==
    LET Pass(c) == _passes_hard_filters(c, requirements)
    IN  SelectSeq(candidates, Pass)

\* C14: apply_hard_filters returns exactly the candidates that pass the
\* hard filters, in input order: a sub-list of its input, and filtering it
\* again with the same requirements changes nothing.
C14_FilterIsSublistAndIdempotent ==
    hfDone =>
        /\ hfFiltered = PassingOf(hfCandidates, hfRequirements)
        /\ Len(hfFiltered) <= Len(hfCandidates)
        /\ \A k \in 1..Len(hfFiltered) :
              \E j \in k..Len(hfCandidates) : hfCandidates[j] = hfFiltered[k]
        /\ hfRefiltered = hfFiltered

\* C14 witness: two different candidates passed and a third was dropped.
C14_Witness ==
    /\ hfDone /\ Len(hfCandidates) >= 2 /\ Len(hfFiltered) >= 1
    /\ Len(hfFiltered) < Len(hfCandidates)
    /\ hfRequirements.required_skills # <<>>
    /\ hfRequirements.location # {}

\* The conjunction of the four predicates, each one passing when the
\* requirement or the record's attribute is absent.
PassesSkippingAbsent(candidate, requirements) ==
    /\ (requirements.location # {} /\ candidate.location_preference # {}) =>
          _location_matches(Get(candidate.location_preference, ""),
                            Get(requirements.location, ""))
    /\ (Get(requirements.min_experience_years, 0) # 0
        /\ candidate.experience_years # {}) =>
          _extract_experience_years(candidate.experience_years)
              >= Get(requirements.min_experience_years, 0)
    /\ (requirements.salary_range # {} /\ candidate.expected_salary # {}) =>
          _salary_compatible(Get(candidate.expected_salary, 0),
                             Get(requirements.salary_range, 0))
    /\ candidate.skills # {} =>
          \A k \in 1..Len(requirements.required_skills) :
              _has_skill(Get(candidate.skills, {}),
                         requirements.required_skills[k])


\* C15: _passes_hard_filters is the conjunction of the four predicates and
\* skips a predicate when the requirement or the record's attribute is
\* absent, also for minimum experience and required skills.
C15_AbsentSideSkipsPredicate ==
    hfDone =>
        \A k \in 1..Len(hfCandidates) :
            _passes_hard_filters(hfCandidates[k], hfRequirements)
                <=> PassesSkippingAbsent(hfCandidates[k], hfRequirements)

\* C16: after vector_prefilter_candidates, whichever branch it took,
\* prefiltered_items has at most 10 entries, each with the identifier of a
\* hard-filtered item.
C16_PrefilterCappedAndFiltered ==
    ppc \in {"disabled", "no_query", "search_raised", "search_absorbed",
             "search_ok"} =>
        /\ Len(pstate.prefiltered_items) <= 10
        /\ \A j \in 1..Len(pstate.prefiltered_items) :
              \E k \in 1..Len(pstate.hard_filtered_items) :
                  ItemId(pstate.prefiltered_items[j])
                      = ItemId(pstate.hard_filtered_items[k])

\* The stage sequence that the two flags alone select; the legacy
\* single-pass prefilter is either of the two legacy prefilter nodes.
FlagSequences(use_advanced_matching, use_hybrid_matching) ==
    LET scoring == IF use_hybrid_matching THEN "hybrid_matching"
                   ELSE "ai_matching"
    IN  IF use_advanced_matching
        THEN {<<"hard_filter", "vector_prefilter", scoring, "save_results">>}
        ELSE {<<p, scoring, "save_results">> :
                 p \in {"prefilter_candidates", "prefilter_projects"}}

\* C17: the route of a run of the matching graph is fixed by the flags
\* use_advanced_matching and use_hybrid_matching alone: one prefilter path
\* (hard_filter then vector_prefilter, or one legacy prefilter), then one
\* scoring stage, then save_results once, last.
C17_RouteFixedByFlags ==
    gnode = "END" =>
        gtrace \in FlagSequences(Get(gstate.use_advanced_matching, TRUE),
                                 Get(gstate.use_hybrid_matching, TRUE))

\* C18: after complete_stage on a started stage, the stage's current equals
\* its total and its percentage is exactly 100, for every total, 0 included.
C18_CompleteStageReaches100 ==
    (tlast.op = "complete_stage"
        /\ tracker.stages_progress[tlast.stage] # {}) =>
        \A p \in tracker.stages_progress[tlast.stage] :
            p.current = p.total /\ p.percentage = 100 * 100

\* C19: for a fixed stage, an update_progress call on the stage never
\* lowers the stage's current or its percentage, whatever value is passed.
C19_ProgressNeverDecreases ==
    [][\A s \in ProgressStages :
          (tlast'.op = "update_progress" /\ tlast'.stage = s) =>
              \A p \in tracker.stages_progress[s],
                 q \in tracker'.stages_progress[s] :
                  q.current >= p.current /\ q.percentage >= p.percentage]_vars

\* C20: complete_session marks the tracker completed, and a second call
\* changes neither the tracker state nor notifies the callbacks again.
C20_CompleteSessionIdempotent ==
    /\ [](tlast.op = "complete_session" => tracker.is_completed)
    /\ [][(tracker.is_completed /\ tlast'.op = "complete_session"
              /\ tcalls' = tcalls + 1) =>
              (tracker' = tracker /\ tnotified' = tnotified)]_vars

\* The instances of a kind handed out for a session that were not removed
\* from their registry since.
LiveHeld(kind, session_id) ==
    {h.instance : h \in {x \in held : /\ x.kind = kind
                                        /\ x.session_id = session_id
                                        /\ x.instance \notin inactive}}

\* C21: for every session id, a create call on a registered id yields the
\* registered instance, so the callers never hold two different live
\* streams or two different live trackers of one session.
C21_OneInstancePerSession ==
    \A s \in SessionIds, k \in {"stream", "tracker"} :
        Cardinality(LiveHeld(k, s)) <= 1

\* C22: a progress callback asked for a session that has no tracker is
\* handed out with a tracker created and registered for the session, and
\* progress reported through it is recorded in that tracker; for both
\* create_batch_callback and create_async_progress_callback.
C22_CallbackAutoCreatesSession ==
    /\ \A cb \in mcallbacks : ~cb.found_tracker => cb.tracker # 0
    /\ (mlast.op \in {"create_batch_callback",
                      "create_async_progress_callback"}) =>
           trackers[mlast.session_id] # 0
    /\ \A cb \in mlast.callback :
           ~cb.found_tracker =>
               /\ cb.tracker # 0
               /\ trackerOf[cb.tracker].stages_progress[cb.stage] # {}

\* C23: at every moment of a process_batch_async run at most max_concurrent
\* items are being processed, and at every moment of a process_batch_sync
\* run at most max_workers.
C23_ConcurrencyBounded ==
    Cardinality(Running) <=
        IF bMode = "async" THEN max_concurrent ELSE max_workers

\* C23 witness: an asynchronous run in which the semaphore is exhausted and
\* a task of the batch waits for it.
C23_Witness ==
    /\ bMode = "async" /\ bpc = "wait"
    /\ Cardinality(Running) = max_concurrent /\ Queued # {}

\* The items whose processing has begun, and those whose processing ended.
Started == {k \in 1..total_items : tstate[k] \in {"running", "finished",
                                                    "collected"}}
Finished == {k \in 1..total_items : tstate[k] \in {"finished", "collected"}}

\* The number of the batch of item k, counted from 0.
BatchOf(k) == (k - 1) \div batch_size

\* C28: the batches run one after another: no item of a batch starts
\* before every item of the batches before it has finished.
C28_BatchesSequential ==
    \A k \in Started : \A j \in 1..total_items :
        BatchOf(j) < BatchOf(k) => j \in Finished

\* C28 witness: an item of the second batch runs, after an item of the
\* first batch failed.
C28_Witness ==
    \E k \in 1..total_items :
        /\ tstate[k] = "running" /\ BatchOf(k) = 1
        /\ \E j \in 1..total_items : BatchOf(j) = 0 /\ items[j] \in raisesOn

\* C29: the progress callback is called once per batch, after the items of
\* the batch finished and before the next batch starts, with the number of
\* items of the batches finished so far and the total: ceil(n/batchSize)
\* calls, the last one with completedCount = totalCount.
C29_ProgressOncePerBatch ==
    /\ Len(progress) = bi \div batch_size
    /\ \A j \in 1..Len(progress) :
          progress[j] = <<Min(j * batch_size, total_items), total_items>>
    /\ \A k \in 1..total_items :
          /\ tstate[k] # "new" => Len(progress) >= BatchOf(k)
          /\ Len(progress) > BatchOf(k) => k \in Finished
    /\ bpc = "done" =>
          Len(progress) = (total_items + batch_size - 1) \div batch_size

\* C29 witness: a run of two batches, the second one shorter, has returned.
C29_Witness ==
    /\ bpc = "done" /\ Len(progress) = 2
    /\ progress[1][1] = batch_size /\ progress[2][1] = total_items
    /\ total_items < 2 * batch_size

\* The score the weighted sum gives an item with the weights 0.3, 0.4 and
\* 0.3, the vector score being the item's similarity times 100.
WeightedSumScore(item, ai_score) ==
    IntTrunc((Get(item.similarity_score, DefaultSimilarity) * 100 * 30
              + ai_score * 1000 * 40
              + item.business * 1000 * 30) \div 100, 1000)

\* C24: the weights of the hybrid score are configured (0.3, 0.4, 0.3 by
\* default), and when no step of hybrid_matching fails every result has the
\* integer score vectorScore*Wv + aiScore*Wa + businessScore*Wb of its item,
\* vectorScore being the item's similarity times 100.
C24_HybridWeightedSum ==
    /\ stageRun = "hybrid_matching" => matchingWeights = {HybridWeights}
    /\ (mpc = "done" /\ stageRun = "hybrid_matching" /\ ~hybridRaised) =>
          \A j \in 1..Len(mstate.match_results) :
              \E item \in ItemsOf(Take(mstate.prefiltered_items, 5)),
                 ai_score \in AiScoreChoices :
                  /\ mstate.match_results[j].id =
                         Get(item.point_id, Get(item.id, "unknown"))
                  /\ mstate.match_results[j].score =
                         WeightedSumScore(item, ai_score)

\* C25: calculate_business_score gives a skill sub-score in 0..40, an
\* experience sub-score in 0..30, an other-factors sub-score in 0..30, and
\* returns their sum, which lies in 0..100.
C25_BusinessScoreInRange ==
    scDone =>
        /\ scResult.skill_score \in 0..40
        /\ scResult.exp_score \in 0..30
        /\ scResult.other_score \in 0..30
        /\ scResult.total_score = scResult.skill_score + scResult.exp_score
                                      + scResult.other_score
        /\ scResult.total_score \in 0..100

\* C25 witness: a candidate who covers two required categories and reaches
\* the top of every sub-score.
C25_Witness ==
    /\ scDone /\ scResult.total_score = 100
    /\ Cardinality(scProject.tech_requirements.keywords) >= 2

\* The categories a text mentions.
CategoriesOf(keywords) ==
    {c \in DOMAIN skill_keywords : skill_keywords[c] \cap keywords # {}}

\* round(40 * m / r), for r > 0.
Round40(m, r) == (2 * 40 * m + r) \div (2 * r)

\* C26: the skill sub-score is round(40 * matchedCategories /
\* requiredCategories), and a flat 20 when the project mentions no
\* recognizable category, whatever the candidate's skills are.
C26_SkillScoreFormula ==
    scDone =>
        LET required == CategoriesOf(scProject.tech_requirements.keywords)
            matched == required \cap CategoriesOf(scCandidate.skills)
        IN  scResult.skill_score =
                IF required = {} THEN 20
                ELSE Round40(Cardinality(matched), Cardinality(required))

\* C27: when emit calls run on another thread while complete() runs, or a
\* callback emits while it is handed COMPLETE, no subscriber receives an
\* event after it has received COMPLETE.
C27_NothingAfterCompleteConcurrent ==
    \A c \in Callbacks :
        \A i \in 1..Len(cReceived[c]) :
            cReceived[c][i] = COMPLETE => i = Len(cReceived[c])

\* C30: with vector search enabled and a non-empty query, whenever the
\* similarity search fails, as an exception in the stage or absorbed inside
\* search_candidates, prefiltered_items is the first 10 hard-filtered
\* items.
C30_SearchFailureFallsBack ==
    ppc \in {"search_raised", "search_absorbed"} =>
        pstate.prefiltered_items = Take(pstate.hard_filtered_items, 10)

\* C31: update_progress(stage, c) on a stage that was never started creates
\* the stage through start_stage (stage counter +1, every callback notified
\* once), and afterwards the stage records c as its current progress.
C31_UpdateAutoCreatesStage ==
    [][\A s \in ProgressStages :
          (/\ tracker.stages_progress[s] = {}
           /\ tcalls' = tcalls + 1
           /\ tlast'.op = "update_progress" /\ tlast'.stage = s) =>
              /\ tracker'.current_stage = tracker.current_stage + 1
              /\ Len(tnotified') = Len(tnotified) + Len(tcallbacks)
              /\ tracker'.stages_progress[s] # {}
              /\ \A q \in tracker'.stages_progress[s] :
                    q.current = tlast'.value]_vars

\* An entry fits the MatchResult shape: every field present, the score
\* within 0..100.
FitsMatchResult(entry) ==
    /\ entry.id # {} /\ entry.name # {} /\ entry.reason # {}
    /\ \E x \in entry.score : x \in 0..100

\* The entries of a response that fit, in the returned order.
KeptEntries(ms) ==
    LET fit == SelectSeq(ms, FitsMatchResult)
    IN  [j \in 1..Len(fit) |->
            [id |-> Get(fit[j].id, ""), name |-> Get(fit[j].name, ""),
             score |-> Get(fit[j].score, 0),
             reason |-> Get(fit[j].reason, "")]]

ScoredWithNeutral(its, project_info, calls) ==
    SortByScoreDesc(
        [j \in 1..Len(its) |->
            HybridMatchOf(its[j],
                          IF ~project_info \/ calls[its[j]].raised
                          THEN 60 ELSE Get(calls[its[j]].score, 60),
                          HybridWeights)])

EntryIdOf(item) == Get(item.point_id, Get(item.id, "unknown"))

\* The first five prefiltered items.
FirstFive(state) ==
    SubSeq(state.prefiltered_items, 1,
           IF Len(state.prefiltered_items) < 5
           THEN Len(state.prefiltered_items) ELSE 5)

\* The scoring loop of the stage that ran came to its end: vector-only
\* scoring with the vector search enabled and no error, or hybrid scoring
\* whose try block did not raise.
ScoringCompleted ==
    /\ mpc = "done"
    /\ \/ /\ stageRun = "vector_similarity_matching"
          /\ use_vector_search /\ mstate.errors = <<>>
       \/ stageRun = "hybrid_matching" /\ ~hybridRaised

\* C34: after vector-only or hybrid scoring completes without failure,
\* match_results holds exactly one entry for each of the first 5
\* prefiltered items, at most 5, sorted by score in non-increasing order.
C34_OneEntryPerItemSorted ==
    ScoringCompleted =>
        LET its == FirstFive(mstate)
            res == mstate.match_results
        IN  /\ Len(res) = Len(its) /\ Len(res) <= 5
            /\ \A x \in {EntryIdOf(its[k]) : k \in 1..Len(its)}
                       \cup {res[j].id : j \in 1..Len(res)} :
                  Cardinality({j \in 1..Len(res) : res[j].id = x})
                    = Cardinality({k \in 1..Len(its) :
                                      EntryIdOf(its[k]) = x})
            /\ \A j \in 1..(Len(res) - 1) : res[j].score >= res[j + 1].score

C34_Witness ==
    /\ ScoringCompleted /\ stageRun = "vector_similarity_matching"
    /\ Len(mstate.prefiltered_items) = 6
    /\ mstate.prefiltered_items[1] = SheetItem
    /\ mstate.prefiltered_items[2] = PointItem
    /\ Len(mstate.match_results) = 5
    /\ mstate.match_results[1].score > mstate.match_results[5].score

\* The position of a stage in the fixed order.
StageOrder(stage) == CHOOSE k \in 1..Len(RunStages) : RunStages[k] = stage

\* The positions of the trace at which a stage is started.
StartsIn(trace) == {i \in 1..Len(trace) : trace[i].op = "start_stage"}

\* TRUE iff the stage started at position j of the trace is completed
\* before position i.
CompletedBetween(trace, j, i) ==
    \E k \in (j + 1)..(i - 1) :
        trace[k] = [op |-> "complete_stage", stage |-> trace[j].stage]

\* C35: with progress tracking enabled the stages of a run are started in
\* the fixed order, each only after every stage started before it has been
\* completed; at most 6 stages are started, the stage counter never exceeds
\* total_stages = 6; complete_session comes only after the last stage has
\* been completed.
C35_StagesInOrder ==
    /\ \A i \in StartsIn(rtrace) :
          /\ rtrace[i].stage \in {RunStages[k] : k \in 1..Len(RunStages)}
          /\ \A j \in StartsIn(rtrace) :
                j < i => /\ StageOrder(rtrace[j].stage)
                              < StageOrder(rtrace[i].stage)
                         /\ CompletedBetween(rtrace, j, i)
    /\ Cardinality(StartsIn(rtrace)) <= 6
    /\ tracker.current_stage = Cardinality(StartsIn(rtrace))
    /\ tracker.current_stage <= tracker.total_stages
    /\ tracker.total_stages = 6
    /\ \A i \in 1..Len(rtrace) :
          rtrace[i].op = "complete_session" =>
              /\ \A j \in StartsIn(rtrace) :
                    j < i /\ CompletedBetween(rtrace, j, i)
              /\ \E j \in StartsIn(rtrace) :
                    rtrace[j].stage = "result_generation"

C35_Witness ==
    /\ rphase = "returned" /\ tracker.current_stage = 6
    /\ tracker.is_completed
    /\ rtrace[Len(rtrace)].op = "complete_session"

\* C40: when a run fails, its error path leaves the tracker unchanged:
\* set_error(COMPLETION) finds no such stage, changes nothing and notifies
\* nobody, no stage carries the error and is_completed stays false.
C40_ErrorPathLeavesTracker ==
    /\ [](rphase \in {"except", "raised"} =>
            /\ ~tracker.is_completed
            /\ \A s \in DOMAIN tracker.stages_progress :
                  \A p \in tracker.stages_progress[s] : ~p.error)
    /\ [][rphase = "except" =>
              (tracker' = tracker /\ tnotified' = tnotified)]_vars

C40_Witness ==
    /\ rphase = "raised" /\ tlast.op = "set_error"
    /\ tcallbacks # <<>> /\ tracker.current_stage = 5
    /\ Len(tnotified) > 0

\* C36: the heartbeat loop emits heartbeats only while the session is
\* active: once complete() or remove_stream has made it inactive nothing
\* more is delivered, the next turn of the loop ends it, and the loop does
\* end.
C36_HeartbeatOnlyWhileActive ==
    /\ [][~is_active => received' = received]_vars
    /\ [][(~is_active /\ (hbpc' # hbpc
                             \/ last_heartbeat' # last_heartbeat)) =>
              (hbpc' = "ended" /\ last_heartbeat' = last_heartbeat)]_vars
    /\ (~is_active ~> hbpc = "ended")

C36_Witness ==
    /\ ~is_active /\ hbpc = "ended" /\ completeReturned
    /\ Len(received["cb1"]) = 3
    /\ received["cb1"][1].event_type = HEARTBEAT
    /\ received["cb1"][2].event_type = HEARTBEAT
    /\ received["cb1"][3].event_type = COMPLETE

\* C37: in process_batch_sync the progress callback runs on the calling
\* thread only, in a step in which no worker thread acts, and never while
\* an item of the run is queued or being processed.
C37_CallbackOnCallingThread ==
    [][(bMode \in {"sync", "matches"} /\ progress' # progress) =>
          /\ bpc = "wait" /\ bpc' = "loop"
          /\ Running = {} /\ Queued = {}
          /\ \A k \in 1..total_items :
                tstate[k] \notin {"queued", "running", "finished"}
          /\ tstate' = tstate /\ tres' = tres
          /\ Len(progress') = Len(progress) + 1]_vars

C37_Witness ==
    /\ bMode = "sync" /\ bpc = "loop" /\ Len(progress) = 1
    /\ max_workers = 2 /\ batch_size = 2 /\ total_items = 3
    /\ doneOrder = <<2, 1>>

\* How often a callback occurs in a list.
CountIn(l, cb) == Cardinality({k \in 1..Len(l) : l[k] = cb})

\* C38: emit_event delivers the event exactly once to every callback that
\* is subscribed when the emit starts, even if a callback subscribes or
\* unsubscribes itself or another callback during the delivery.
C38_ExactlyOncePerSubscriber ==
    itpc = "done" =>
        \A cb \in IterCallbacks :
            CountIn(itAtStart, cb) = 1 => CountIn(itCalled, cb) = 1

\* C39: when a later call of process_emails_with_streaming finds the
\* completed stream of an earlier run still registered under its session
\* id, create_stream hands that stream back inactive, and from then on the
\* subscribers receive nothing: what each has received stays what it was
\* when the call began, the COMPLETE event of the later run included.
C39_RerunOnCompletedStreamIsSilent ==
    reusedInactive =>
        /\ ~is_active
        /\ received = receivedAtCall

\* A second run on the reused stream has returned: its complete() was the
\* last emit, on the inactive stream, with cb1 still subscribed.
C39_Witness ==
    /\ runNo = 2 /\ reusedInactive /\ sphase = "returned"
    /\ enable_progress_tracking
    /\ IsSubscribed("cb1") /\ "cb1" \notin faulty
    /\ Len(received["cb1"]) > 0
    /\ lastEmit.event_type = COMPLETE /\ ~lastEmit.active
    /\ lastEmit.timestamp > 0

====
